---- MODULE Spec2Model ----
(***************************************************************************)
(* Ring-resonator spectrum analysis of PHCEP                                 *)
(* (src/Tests/Performance/ring_q_analysis.py, RingResonanceAnalyzer).        *)
(*                                                                           *)
(* Units.  Wavelengths, the fit window, min_separation, gamma and the FWHM   *)
(* are integers in units of 0.0005 nm (half a picometre), so that 1 nm is    *)
(* 2000 units.  Powers are integers in dBm.  A smoothed power is kept        *)
(* multiplied by SavgolDen, the common denominator of the Savitzky-Golay     *)
(* coefficients, so that the filter is computed exactly.  Sample indices     *)
(* are 1-based here (numpy's index k is k+1 here).  Quotients of floats are  *)
(* exact fractions <<numerator, denominator>> in lowest terms.               *)
(***************************************************************************)
EXTENDS Integers, Sequences, FiniteSets, TLC

VARIABLES
    columns,            \* header fields of the CSV file given to the analysis
    wavelength_dtype,   \* dtype pandas gives the column wavelength_nm
    wavelengths,        \* column wavelength_nm of the file
    powers,             \* column power_dBm of the file
    pc,                 \* position inside analyze_ring_spectrum
    error,              \* the exception that left analyze_ring_spectrum, or "none"
    resonance_indices,  \* dips returned by find_resonances
    fit_calls,          \* one entry per call of fit_single_resonance, in call order
    resonance_results,  \* list of the fitted resonances
    results,            \* the result dictionary, None until compiled
    files,              \* files written next to the CSV file
    self_results,       \* attribute results of the analyzer object
    fit_memo,           \* what curve_fit returned, per candidate it was called on
    first,              \* outcome of the first of two analyses, None during it
    \* a call of calculate_fsr on its own
    fsr_arg,            \* the list of centre wavelengths it is called with
    fsr_ret,            \* what the call returned, None before it returns
    \* the effective index computed on its own by both analysis scripts
    index_fsr,          \* the free spectral range it is computed from
    index_radius,       \* the ring radius in micrometres
    index_ret,          \* what calculate_effective_index returned, or None
    all_n_eff,          \* n_eff of analyze_all_resonances, or None
    \* two invocations of one analysis script on different files
    script,             \* the script both invocations run
    threads,            \* TRUE: both in one interpreter; FALSE: a process each
    csv_file,           \* per invocation, the file it analyses
    ipc,                \* per invocation, its position in the script
    open_figures,       \* per interpreter, pyplot's figures, the current one last
    drawn,              \* per figure, the spectra drawn on it
    fs,                 \* the files of the working directory with their content
    \* MeasurementWorkflow.run_complete_workflow (measure_workflow.py)
    wf_pc,              \* position inside run_complete_workflow
    stdout,             \* the steps whose banner was printed, in order
    step_results,       \* what the steps that returned have returned, in order
    taper_todo,         \* taper lengths the loop of step 2 has still to measure
    success_count,      \* success_count of run_taper_measurements
    wf_ret,             \* what run_complete_workflow returned, None before
    cwd_files,          \* files in the current directory
    out_files,          \* files in self.output_dir
    launched,           \* the subprocesses run so far, with their return codes
    \* ExperimentRunner.run_complete_analysis (experiment_runner.py)
    run_pc,             \* position inside run_complete_analysis
    data_dir_exists,    \* whether self.data_dir is a directory
    csv_files,          \* what glob returns in discover_data_files, in its order
    data_files,         \* what discover_data_files returned, None before
    run_todo,           \* the files the running loop has still to analyse
    results_summary,    \* self.results_summary, as a set of entries
    attempts,           \* the analyses run so far, with how they ended
    run_error,          \* the exception that left run_complete_analysis, or None
    report_files,       \* how many summary reports were written
    \* remove_comments_and_mdash applied to one file (remove.py)
    file_content,       \* the lines of the file
    earlier_contents,   \* the lines the file held before each application
    applications        \* per application, the lines it kept and removed_count

\* the input of the analysis, which no step of it changes
input == <<columns, wavelength_dtype, wavelengths, powers>>

\* the state of one run of analyze_ring_spectrum
ring == <<input, pc, error, resonance_indices, fit_calls, resonance_results,
          results, files, self_results, fit_memo, first>>

\* the state of a call of calculate_fsr
fsrCall == <<fsr_arg, fsr_ret>>

\* the state of the computations of the effective index
indexCall == <<index_fsr, index_radius, index_ret, all_n_eff>>

\* the state of the two invocations
invocations == <<script, threads, csv_file, ipc, open_figures, drawn, fs>>

\* the state of the measurement workflow
workflow == <<wf_pc, stdout, step_results, taper_todo, success_count, wf_ret,
              cwd_files, out_files, launched>>

\* the state of the experiment runner
runner == <<run_pc, data_dir_exists, csv_files, data_files,
            run_todo, results_summary, attempts, run_error, report_files>>

\* the state of the file remove_comments_and_mdash rewrites
remover == <<file_content, earlier_contents, applications>>

\* what a run of analyze_ring_spectrum, a call of calculate_fsr, a computation
\* of the index, the two invocations, the workflow, the experiment runner and
\* the rewriting of a file leave alone
notRing == <<fsrCall, indexCall, invocations, workflow, runner, remover>>
notFsrCall == <<ring, indexCall, invocations, workflow, runner, remover>>
notIndexCall == <<ring, fsrCall, invocations, workflow, runner, remover>>
notInvocations == <<ring, fsrCall, indexCall, workflow, runner, remover>>
notWorkflow == <<ring, fsrCall, indexCall, invocations, runner, remover>>
notRunner == <<ring, fsrCall, indexCall, invocations, workflow, remover>>
notRemover == <<ring, fsrCall, indexCall, invocations, workflow, runner>>

vars == <<ring, fsrCall, indexCall, invocations, workflow, runner, remover>>

\* Python's None is the empty tuple; a float is a fraction <<num, den>>
None == <<>>
Some(v) == <<v>>

\* the dictionary {} that __init__ stores in self.results
EmptyDict == <<>>

(***************************************************************************)
(* Bounds of the model.                                                      *)
(***************************************************************************)
ShortLen == 5            \* a spectrum shorter than the smoothing window
MaxLen == 120            \* longest spectrum
DeepDip == 10            \* depth in dB of the deep dips of the input spectra
StartWavelength == 3100000   \* first wavelength of a spectrum: 1550 nm

(***************************************************************************)
(* Program constants.                                                        *)
(***************************************************************************)
window_length == 11              \* savgol_filter(powers, 11, 3)
min_depth_default == 3           \* dB
min_separation_default == 200    \* 0.1 nm
AssumedSampleInterval == 2       \* the 0.001 nm of min_separation/0.001
window_default == 2000           \* 1.0 nm
MinRegionSamples == 10           \* len(wl_region) < 10
MinResonancesForFsr == 2
ring_radius_default == 10        \* um
SavgolDen == 858

(***************************************************************************)
(* Arithmetic helpers.                                                       *)
(***************************************************************************)
Abs(a) == IF a < 0 THEN -a ELSE a

RECURSIVE GCD(_, _)
GCD(a, b) == IF b = 0 THEN a ELSE GCD(b, a % b)

Sign(a) == IF a < 0 THEN -1 ELSE IF a = 0 THEN 0 ELSE 1

\* float division a / b of numpy: an exact fraction in lowest terms with a
\* positive denominator; <<1, 0>>, <<-1, 0>> and <<0, 0>> are inf, -inf, nan
Div(a, b) ==
    IF b = 0 THEN <<Sign(a), 0>>
    ELSE LET g == GCD(Abs(a), Abs(b))
             s == IF b < 0 THEN -1 ELSE 1
         IN  <<(s * a) \div g, (s * b) \div g>>

Ceil(a, b) == -((-a) \div b)

RECURSIVE SumUpTo(_, _)
SumUpTo(s, k) == IF k = 0 THEN 0 ELSE s[k] + SumUpTo(s, k - 1)
SumSeq(s) == SumUpTo(s, Len(s))

\* np.min and np.max of a non-empty sequence
SetMin(S) == CHOOSE x \in S : \A y \in S : x <= y
SetMax(S) == -SetMin({-x : x \in S})
SeqMin(s) == SetMin({s[k] : k \in DOMAIN s})
SeqMax(s) == SetMax({s[k] : k \in DOMAIN s})

(***************************************************************************)
(* scipy.signal.savgol_filter(x, 11, 3), mode 'interp', times SavgolDen.     *)
(* Row r of SavgolRows gives the value of the cubic fitted by least squares  *)
(* to 11 consecutive samples at the r-th of them; row 6 is the convolution   *)
(* kernel used away from the ends, rows 1..5 and 7..11 the polynomial fitted *)
(* to the first and the last 11 samples.                                     *)
(***************************************************************************)
SavgolRows ==
    << <<678, 288, 48, -72, -102, -72, -12, 48, 78, 48, -72>>,
       <<288, 246, 192, 132, 72, 18, -24, -48, -48, -18, 48>>,
       <<48, 192, 246, 232, 172, 88, 2, -64, -88, -48, 78>>,
       <<-72, 132, 232, 251, 212, 138, 52, -23, -64, -48, 48>>,
       <<-102, 72, 172, 212, 206, 168, 112, 52, 2, -24, -12>>,
       <<-72, 18, 88, 138, 168, 178, 168, 138, 88, 18, -72>>,
       <<-12, -24, 2, 52, 112, 168, 206, 212, 172, 72, -102>>,
       <<48, -48, -64, -23, 52, 138, 212, 251, 232, 132, -72>>,
       <<78, -48, -88, -64, 2, 88, 172, 232, 246, 192, 48>>,
       <<48, -18, -48, -48, -24, 18, 72, 132, 192, 246, 288>>,
       <<-72, 48, 78, 48, -12, -72, -102, -72, 48, 288, 678>> >>

\* savgol_filter raises ValueError when the window is longer than the data
savgol_raises(x) == Len(x) < window_length

savgol_filter(x) ==
    LET N == Len(x)
        half == window_length \div 2
        row(k) == IF k <= half THEN k
                  ELSE IF k > N - half THEN window_length - (N - k)
                  ELSE half + 1
        base(k) == IF k <= half THEN 0
                   ELSE IF k > N - half THEN N - window_length
                   ELSE k - half - 1
    IN  [k \in 1..N |->
            SumSeq([j \in 1..window_length |->
                        SavgolRows[row(k)][j] * x[base(k) + j]])]

(***************************************************************************)
(* scipy.signal.find_peaks(x, height, distance).                             *)
(***************************************************************************)
\* the elements of a finite set of integers in increasing order
SortedSeq(S) ==
    [n \in 1..Cardinality(S) |->
        CHOOSE p \in S : Cardinality({q \in S : q <= p}) = n]

\* first index after k whose value differs from x[k] (the last index if none)
PlateauAhead(x, k) ==
    CHOOSE a \in (k + 1)..Len(x) :
        /\ a = Len(x) \/ x[a] # x[k]
        /\ \A b \in (k + 1)..(a - 1) : x[b] = x[k]

\* the last sample of a plateau taken instead of its midpoint
local_maxima_1d_plateau_end(x) ==
    SortedSeq({PlateauAhead(x, k) - 1 :
                  k \in {m \in 2..(Len(x) - 1) :
                            /\ x[m - 1] < x[m]
                            /\ x[PlateauAhead(x, m)] < x[m]}})

\* _local_maxima_1d: midpoints of the plateaus that are higher than both
\* neighbours; the first and the last sample are never a maximum
local_maxima_1d(x) ==
    SortedSeq({(k + PlateauAhead(x, k) - 1) \div 2 :
                  k \in {m \in 2..(Len(x) - 1) :
                            /\ x[m - 1] < x[m]
                            /\ x[PlateauAhead(x, m)] < x[m]}})

\* _select_by_peak_distance: peaks are visited from the highest priority to
\* the lowest (of equal ones the later first); a visited peak that is still
\* kept removes every peak closer than distance to it
RECURSIVE select_by_peak_distance(_, _, _, _, _)
select_by_peak_distance(peaks, priority, distance, keep, todo) ==
    IF todo = {} THEN keep
    ELSE LET j == CHOOSE a \in todo : \A b \in todo :
                      \/ priority[b] < priority[a]
                      \/ priority[b] = priority[a] /\ b <= a
             near == {k \in DOMAIN peaks :
                          k # j /\ Abs(peaks[k] - peaks[j]) < distance}
         IN  IF j \in keep
             THEN select_by_peak_distance(peaks, priority, distance,
                                          keep \ near, todo \ {j})
             ELSE select_by_peak_distance(peaks, priority, distance,
                                          keep, todo \ {j})

\* find_peaks(x, height=height, distance=distance); height is scaled as x is
find_peaks(x, height, distance) ==
    LET all == local_maxima_1d(x)
        high == SelectSeq(all, LAMBDA q : x[q] >= height)
        priority == [k \in DOMAIN high |-> x[high[k]]]
        keep == select_by_peak_distance(high, priority, distance,
                                        DOMAIN high, DOMAIN high)
        order == SortedSeq(keep)
    IN  [n \in DOMAIN order |-> high[order[n]]]

(***************************************************************************)
(* RingResonanceAnalyzer.find_resonances: [exc, dips].                       *)
(***************************************************************************)
find_resonances(wl, pw, min_depth, min_separation) ==
    IF savgol_raises(pw)
    THEN [exc |-> "ValueError", dips |-> <<>>]
    ELSE LET smoothed == savgol_filter(pw)
             neg == [k \in DOMAIN smoothed |-> -smoothed[k]]
         IN  [exc |-> "none",
              dips |-> find_peaks(neg, min_depth * SavgolDen,
                                  Ceil(min_separation, AssumedSampleInterval))]

(***************************************************************************)
(* scipy.optimize.curve_fit as called by fit_single_resonance: least         *)
(* squares without bounds on the parameters.  It either raises (RuntimeError *)
(* when maxfev evaluations did not converge) or returns popt =               *)
(* <<A, x0, gamma, offset>>.  The Lorentzian depends on gamma only through   *)
(* gamma squared, so gamma and -gamma fit equally well, and x0 is not        *)
(* confined to the fitted region.                                            *)
(***************************************************************************)
FitGammas == {-100, 100}            \* 0.05 nm, either sign
FitShifts == {-3000, 0, 3000}       \* x0 - x0_guess: 0 or 1.5 nm either way

curve_fit(x0_guess) ==
    {[kind |-> "RuntimeError", popt |-> <<>>]} \cup
    {[kind |-> "popt", popt |-> <<1, x0_guess + dx, g, 0>>] :
        dx \in FitShifts, g \in FitGammas}

\* curve_fit is a function of its arguments: called again for the same
\* candidate of the same spectrum, it returns what it returned before
curve_fit_of(memo, idx, x0_guess) ==
    IF \E m \in memo : m.idx = idx
    THEN {m.fit : m \in {n \in memo : n.idx = idx}}
    ELSE curve_fit(x0_guess)

\* fit_single_resonance without its except clause: the exception of
\* curve_fit leaves the call
fit_single_resonance_reraising(wl, pw, resonance_idx, window, fit) ==
    LET center_wl == wl[resonance_idx]
        mask(w) == w >= center_wl - window /\ w <= center_wl + window
        rows == SelectSeq([k \in DOMAIN wl |-> <<wl[k], pw[k]>>],
                          LAMBDA row : mask(row[1]))
        wl_region == [n \in DOMAIN rows |-> rows[n][1]]
        power_region == [n \in DOMAIN rows |-> rows[n][2]]
    IN  IF Len(wl_region) < MinRegionSamples
        THEN [ret |-> None, called_fit |-> FALSE, exc |-> "none"]
        ELSE IF fit.kind # "popt"
        THEN [ret |-> None, called_fit |-> TRUE, exc |-> fit.kind]
        ELSE LET resonance_wl == fit.popt[2]
                 fwhm == 2 * fit.popt[3]
             IN  [ret |-> Some(
                     [resonance_wavelength |-> resonance_wl,
                      fwhm_nm |-> fwhm,
                      fwhm_pm |-> Div(fwhm, 2),
                      Q_factor |-> Div(resonance_wl, fwhm),
                      extinction_ratio_dB |->
                          SeqMax(power_region) - SeqMin(power_region),
                      fit_parameters |-> fit.popt,
                      fit_region |-> <<SeqMin(wl_region), SeqMax(wl_region)>>]),
                  called_fit |-> TRUE,
                  exc |-> "none"]

\* fit_single_resonance that skips a sub-window of exactly 10 samples too
fit_single_resonance_skipping_ten(wl, pw, resonance_idx, window, fit) ==
    LET center_wl == wl[resonance_idx]
        mask(w) == w >= center_wl - window /\ w <= center_wl + window
        rows == SelectSeq([k \in DOMAIN wl |-> <<wl[k], pw[k]>>],
                          LAMBDA row : mask(row[1]))
        wl_region == [n \in DOMAIN rows |-> rows[n][1]]
        power_region == [n \in DOMAIN rows |-> rows[n][2]]
    IN  IF Len(wl_region) <= MinRegionSamples
        THEN [ret |-> None, called_fit |-> FALSE, exc |-> "none"]
        ELSE IF fit.kind # "popt"
        THEN [ret |-> None, called_fit |-> TRUE, exc |-> "none"]
        ELSE LET resonance_wl == fit.popt[2]
                 fwhm == 2 * fit.popt[3]
             IN  [ret |-> Some(
                     [resonance_wavelength |-> resonance_wl,
                      fwhm_nm |-> fwhm,
                      fwhm_pm |-> Div(fwhm, 2),
                      Q_factor |-> Div(resonance_wl, fwhm),
                      extinction_ratio_dB |->
                          SeqMax(power_region) - SeqMin(power_region),
                      fit_parameters |-> fit.popt,
                      fit_region |-> <<SeqMin(wl_region), SeqMax(wl_region)>>]),
                  called_fit |-> TRUE,
                  exc |-> "none"]

(***************************************************************************)
(* RingResonanceAnalyzer.fit_single_resonance, given what curve_fit does     *)
(* when it is called: [ret, called_fit, exc].                                *)
(***************************************************************************)
\* the width taken as gamma, without the factor two
fit_single_resonance_half_width(wl, pw, resonance_idx, window, fit) ==
    LET center_wl == wl[resonance_idx]
        mask(w) == w >= center_wl - window /\ w <= center_wl + window
        rows == SelectSeq([k \in DOMAIN wl |-> <<wl[k], pw[k]>>],
                          LAMBDA row : mask(row[1]))
        wl_region == [n \in DOMAIN rows |-> rows[n][1]]
        power_region == [n \in DOMAIN rows |-> rows[n][2]]
    IN  IF Len(wl_region) < MinRegionSamples
        THEN [ret |-> None, called_fit |-> FALSE, exc |-> "none"]
        ELSE IF fit.kind # "popt"
        THEN [ret |-> None, called_fit |-> TRUE, exc |-> "none"]
        ELSE LET resonance_wl == fit.popt[2]
                 fwhm == fit.popt[3]
             IN  [ret |-> Some(
                     [resonance_wavelength |-> resonance_wl,
                      fwhm_nm |-> fwhm,
                      fwhm_pm |-> Div(fwhm, 2),
                      Q_factor |-> Div(resonance_wl, fwhm),
                      extinction_ratio_dB |->
                          SeqMax(power_region) - SeqMin(power_region),
                      fit_parameters |-> fit.popt,
                      fit_region |-> <<SeqMin(wl_region), SeqMax(wl_region)>>]),
                  called_fit |-> TRUE,
                  exc |-> "none"]

fit_single_resonance(wl, pw, resonance_idx, window, fit) ==
    LET center_wl == wl[resonance_idx]
        mask(w) == w >= center_wl - window /\ w <= center_wl + window
        rows == SelectSeq([k \in DOMAIN wl |-> <<wl[k], pw[k]>>],
                          LAMBDA row : mask(row[1]))
        wl_region == [n \in DOMAIN rows |-> rows[n][1]]
        power_region == [n \in DOMAIN rows |-> rows[n][2]]
    IN  IF Len(wl_region) < MinRegionSamples
        THEN [ret |-> None, called_fit |-> FALSE, exc |-> "none"]
        ELSE IF fit.kind # "popt"
        THEN [ret |-> None, called_fit |-> TRUE, exc |-> "none"]
        ELSE LET resonance_wl == fit.popt[2]
                 fwhm == 2 * fit.popt[3]
             IN  [ret |-> Some(
                     [resonance_wavelength |-> resonance_wl,
                      fwhm_nm |-> fwhm,
                      fwhm_pm |-> Div(fwhm, 2),
                      Q_factor |-> Div(resonance_wl, fwhm),
                      extinction_ratio_dB |->
                          SeqMax(power_region) - SeqMin(power_region),
                      fit_parameters |-> fit.popt,
                      fit_region |-> <<SeqMin(wl_region), SeqMax(wl_region)>>]),
                  called_fit |-> TRUE,
                  exc |-> "none"]

(***************************************************************************)
(* calculate_fsr and calculate_effective_index.                              *)
(***************************************************************************)
\* largest r in lo..hi with r * r <= n
RECURSIVE ISqrtIn(_, _, _)
ISqrtIn(n, lo, hi) ==
    IF lo = hi THEN lo
    ELSE LET mid == (lo + hi + 1) \div 2
         IN  IF mid * mid <= n THEN ISqrtIn(n, mid, hi)
             ELSE ISqrtIn(n, lo, mid - 1)

\* the square root of a fraction (exact when it is rational)
Sqrt(q) == IF q[1] = 0 THEN <<0, 1>>
           ELSE Div(ISqrtIn(q[1] * q[2], 0, 46340), q[2])

diff(s) == [k \in 1..(Len(s) - 1) |-> s[k + 1] - s[k]]

\* np.mean and np.std of a non-empty sequence of integers
mean(s) == Div(SumSeq(s), Len(s))
std(s) ==
    LET n == Len(s)
        t == SumSeq(s)
    IN  Sqrt(Div(SumSeq([k \in 1..n |-> (n * s[k] - t) * (n * s[k] - t)]),
                 n * n * n))

\* the differences taken in the order of the list, without sorting
calculate_fsr_unsorted(resonance_wavelengths) ==
    IF Len(resonance_wavelengths) < 2
    THEN <<None, None>>
    ELSE LET sorted_wl == resonance_wavelengths
             fsr_values == diff(sorted_wl)
         IN  <<mean(fsr_values), std(fsr_values)>>

calculate_fsr(resonance_wavelengths) ==
    IF Len(resonance_wavelengths) < 2
    THEN <<None, None>>
    ELSE LET sorted_wl == SortSeq(resonance_wavelengths, LAMBDA a, b : a < b)
             fsr_values == diff(sorted_wl)
         IN  <<mean(fsr_values), std(fsr_values)>>

\* n_g = 1550**2 / (fsr * 2*pi*radius * 1e-3) with fsr in nm; here fsr is a
\* fraction of model units, pi is 314/100 and the result is in units of 1e6
calculate_effective_index(fsr, radius) ==
    LET circumference == 2 * 314 * radius
        n_g == Div(1550 * 1550 * 200 * fsr[2], fsr[1] * circumference)
        n_eff == n_g
    IN  <<n_eff, n_g>>

\* ring_resonance_analysis.py, analyze_all_resonances: ring_radius = 10 and
\* n_eff = (avg_fsr * 2*pi*ring_radius) / (1550**2 * 1e-3) with avg_fsr in
\* nm; here avg_fsr is a fraction of model units, pi is 314/100 and the
\* result is in units of 1
analyze_all_n_eff(avg_fsr) ==
    LET ring_radius == 10
        n_eff == Div(avg_fsr[1] * 2 * 314 * ring_radius,
                     1550 * 1550 * 200 * avg_fsr[2])
    IN  n_eff

\* the FSR computed only from more than two resonances
fsr_and_index_more_than_two(valid_resonances, ring_radius) ==
    IF Len(valid_resonances) > MinResonancesForFsr
    THEN LET f == calculate_fsr(valid_resonances)
             e == calculate_effective_index(f[1], ring_radius)
         IN  [avg_fsr |-> f[1], std_fsr |-> f[2], n_eff |-> e[1], n_g |-> e[2]]
    ELSE [avg_fsr |-> None, std_fsr |-> None, n_eff |-> None, n_g |-> None]

\* the indices defaulted to zero when there is no FSR
fsr_and_index_zero_index(valid_resonances, ring_radius) ==
    IF Len(valid_resonances) >= MinResonancesForFsr
    THEN LET f == calculate_fsr(valid_resonances)
             e == calculate_effective_index(f[1], ring_radius)
         IN  [avg_fsr |-> f[1], std_fsr |-> f[2], n_eff |-> e[1], n_g |-> e[2]]
    ELSE [avg_fsr |-> None, std_fsr |-> None,
          n_eff |-> <<0, 1>>, n_g |-> <<0, 1>>]

\* lines 141-151 of analyze_ring_spectrum
fsr_and_index(valid_resonances, ring_radius) ==
    IF Len(valid_resonances) >= MinResonancesForFsr
    THEN LET f == calculate_fsr(valid_resonances)
             e == calculate_effective_index(f[1], ring_radius)
         IN  [avg_fsr |-> f[1], std_fsr |-> f[2], n_eff |-> e[1], n_g |-> e[2]]
    ELSE [avg_fsr |-> None, std_fsr |-> None, n_eff |-> None, n_g |-> None]

(***************************************************************************)
(* The input files.                                                          *)
(***************************************************************************)
RequiredColumns == {"wavelength_nm", "power_dBm"}

Lens == {ShortLen, window_length, MaxLen}
Steps == {1, 2, 400, 2000}           \* sampling: 0.5 pm, 1 pm, 0.2 nm, 1 nm
Baselines == {-20, 0}                \* dBm
DipPositions == {5, 9, 61, 113}      \* samples that may carry a dip
DipDepths == {0, 1, DeepDip}         \* dB below the baseline

Wavelengths(N, step) == [k \in 1..N |-> StartWavelength + (k - 1) * step]
Powers(N, baseline, depth) ==
    [k \in 1..N |-> baseline - (IF k \in DipPositions THEN depth[k] ELSE 0)]

WavelengthColumns == {Wavelengths(N, step) : N \in Lens, step \in Steps}
PowerColumns == {Powers(N, b, d) : N \in Lens, b \in Baselines,
                                   d \in [DipPositions -> DipDepths]}

\* pd.read_csv reads a column of whole numbers written without a decimal
\* point as int64 and any other column of numbers as float64
ColumnDtypes(column) ==
    IF column # <<>> /\ \A k \in DOMAIN column : column[k] % 2000 = 0
    THEN {"int64", "float64"}
    ELSE {"float64"}

\* load_ring_data: the exception it raises, or "none"
load_ring_data(cols) ==
    IF "wavelength_nm" \notin cols \/ "power_dBm" \notin cols
    THEN "ValueError"
    ELSE "none"

\* plot_ring_analysis: the histogram of the Q-factors needs finite values
plot_ring_analysis(fitted) ==
    IF \E k \in DOMAIN fitted : fitted[k].Q_factor[2] = 0
    THEN "ValueError"
    ELSE "none"

\* json.dump(results, f): the values of wavelength_range and fit_region are
\* numpy scalars of the dtype of the wavelength column; np.float64 is a
\* float for json, np.int64 is not serializable
json_dump(res, dtype) ==
    IF dtype = "int64" THEN "TypeError" ELSE "none"

(***************************************************************************)
(* analyze_ring_spectrum(csv_file, ring_radius=10), one step per stage.      *)
(***************************************************************************)
\* no analysis is running and none has run
NoAnalysis ==
    /\ columns = {}
    /\ wavelength_dtype = "float64"
    /\ wavelengths = <<>>
    /\ powers = <<>>
    /\ pc = "idle"
    /\ error = "none"
    /\ resonance_indices = <<>>
    /\ fit_calls = <<>>
    /\ resonance_results = <<>>
    /\ results = None
    /\ files = {}
    /\ self_results = EmptyDict
    /\ fit_memo = {}
    /\ first = None

\* no separate call of calculate_fsr is made
NoFsrCall == fsr_arg = <<>> /\ fsr_ret = None

\* no separate computation of the effective index is made
NoIndexCall ==
    /\ index_fsr = None
    /\ index_radius = ring_radius_default
    /\ index_ret = None
    /\ all_n_eff = None

\* no script is invoked
NoInvocations ==
    /\ script = "none"
    /\ threads = FALSE
    /\ csv_file = <<>>
    /\ ipc = <<>>
    /\ open_figures = <<>>
    /\ drawn = <<>>
    /\ fs = {}

\* no workflow is run
NoWorkflow ==
    /\ wf_pc = "idle"
    /\ stdout = <<>>
    /\ step_results = <<>>
    /\ taper_todo = <<>>
    /\ success_count = 0
    /\ wf_ret = None
    /\ cwd_files = {}
    /\ out_files = {}
    /\ launched = <<>>

\* no experiment runner is run
NoRunner ==
    /\ run_pc = "idle"
    /\ data_dir_exists = FALSE
    /\ csv_files = <<>>
    /\ data_files = None
    /\ run_todo = <<>>
    /\ results_summary = {}
    /\ attempts = <<>>
    /\ run_error = None
    /\ report_files = 0

\* no file is rewritten
NoRemover ==
    /\ file_content = <<>>
    /\ earlier_contents = <<>>
    /\ applications = <<>>

Init ==
    /\ columns \in SUBSET RequiredColumns
    /\ wavelengths \in IF "wavelength_nm" \in columns
                       THEN WavelengthColumns ELSE {<<>>}
    /\ wavelength_dtype \in ColumnDtypes(wavelengths)
    /\ powers \in IF "power_dBm" \in columns THEN PowerColumns ELSE {<<>>}
    /\ columns = RequiredColumns => Len(wavelengths) = Len(powers)
    /\ pc = "start"
    /\ error = "none"
    /\ resonance_indices = <<>>
    /\ fit_calls = <<>>
    /\ resonance_results = <<>>
    /\ results = None
    /\ files = {}
    /\ self_results = EmptyDict
    /\ fit_memo = {}
    /\ first = None
    /\ NoFsrCall
    /\ NoIndexCall
    /\ NoInvocations
    /\ NoWorkflow
    /\ NoRunner
    /\ NoRemover

Raise(exc) ==
    /\ pc' = "raised"
    /\ error' = exc

\* lines 118-123
Load ==
    /\ pc = "start"
    /\ LET exc == load_ring_data(columns)
       IN  IF exc # "none"
           THEN Raise(exc)
           ELSE pc' = "loaded" /\ error' = error
    /\ UNCHANGED <<notRing, input, self_results, first, fit_memo,
                   resonance_indices, fit_calls,
                   resonance_results, results, files>>

\* lines 125-127
FindResonances ==
    /\ pc = "loaded"
    /\ LET r == find_resonances(wavelengths, powers, min_depth_default,
                                min_separation_default)
       IN  IF r.exc # "none"
           THEN Raise(r.exc) /\ UNCHANGED resonance_indices
           ELSE /\ pc' = "fitting"
                /\ error' = error
                /\ resonance_indices' = r.dips
    /\ UNCHANGED <<notRing, input, self_results, first, fit_memo, fit_calls,
                   resonance_results,
                   results, files>>

\* lines 133-139: one iteration of the loop over the candidates
FitNext ==
    /\ pc = "fitting"
    /\ Len(fit_calls) < Len(resonance_indices)
    /\ LET idx == resonance_indices[Len(fit_calls) + 1]
       IN  \E fit \in curve_fit_of(fit_memo, idx, wavelengths[idx]) :
             LET r == fit_single_resonance(wavelengths, powers, idx,
                                           window_default, fit)
             IN  IF r.exc # "none"
                 THEN Raise(r.exc)
                      /\ UNCHANGED <<fit_calls, resonance_results, fit_memo>>
                 ELSE /\ pc' = pc
                      /\ fit_memo' =
                             IF r.called_fit
                             THEN fit_memo \cup {[idx |-> idx, fit |-> fit]}
                             ELSE fit_memo
                      /\ error' = error
                      /\ fit_calls' = Append(fit_calls,
                             [idx |-> idx, called_fit |-> r.called_fit,
                              fit_raised |-> r.called_fit /\ fit.kind # "popt",
                              ret |-> r.ret])
                      /\ resonance_results' =
                             IF r.ret # None
                             THEN Append(resonance_results, r.ret[1])
                             ELSE resonance_results
    /\ UNCHANGED <<notRing, input, self_results, first, resonance_indices,
                   results,
                   files>>

\* the result counting every candidate as fitted
Compile_counting_candidates ==
    /\ pc = "fitting"
    /\ Len(fit_calls) = Len(resonance_indices)
    /\ LET valid_resonances == [k \in DOMAIN resonance_results |->
                                   resonance_results[k].resonance_wavelength]
           a == fsr_and_index(valid_resonances, ring_radius_default)
       IN  results' = Some(
               [ring_radius_um |-> ring_radius_default,
                resonances_found |-> Len(resonance_indices),
                resonances_fitted |-> Len(resonance_indices),
                resonance_results |-> resonance_results,
                fsr_nm |-> a.avg_fsr,
                fsr_std_nm |-> a.std_fsr,
                effective_index |-> a.n_eff,
                group_index |-> a.n_g,
                wavelength_range |-> <<SeqMin(wavelengths),
                                       SeqMax(wavelengths)>>])
    /\ pc' = "compiled"
    /\ UNCHANGED <<notRing, input, self_results, first, fit_memo, error,
                   resonance_indices,
                   fit_calls, resonance_results, files>>

\* lines 141-164
Compile ==
    /\ pc = "fitting"
    /\ Len(fit_calls) = Len(resonance_indices)
    /\ LET valid_resonances == [k \in DOMAIN resonance_results |->
                                   resonance_results[k].resonance_wavelength]
           a == fsr_and_index(valid_resonances, ring_radius_default)
       IN  results' = Some(
               [ring_radius_um |-> ring_radius_default,
                resonances_found |-> Len(resonance_indices),
                resonances_fitted |-> Len(resonance_results),
                resonance_results |-> resonance_results,
                fsr_nm |-> a.avg_fsr,
                fsr_std_nm |-> a.std_fsr,
                effective_index |-> a.n_eff,
                group_index |-> a.n_g,
                wavelength_range |-> <<SeqMin(wavelengths),
                                       SeqMax(wavelengths)>>])
    /\ pc' = "compiled"
    /\ UNCHANGED <<notRing, input, self_results, first, fit_memo, error,
                   resonance_indices,
                   fit_calls, resonance_results, files>>

\* the figure drawn but not saved
Plot_not_saving ==
    /\ pc = "compiled"
    /\ LET exc == plot_ring_analysis(resonance_results)
       IN  IF exc # "none"
           THEN Raise(exc) /\ UNCHANGED files
           ELSE /\ pc' = "plotted"
                /\ error' = error
                /\ files' = files
    /\ UNCHANGED <<notRing, input, self_results, first, fit_memo,
                   resonance_indices, fit_calls,
                   resonance_results, results>>

\* line 167: plot_ring_analysis, lines 178-243
Plot ==
    /\ pc = "compiled"
    /\ LET exc == plot_ring_analysis(resonance_results)
       IN  IF exc # "none"
           THEN Raise(exc) /\ UNCHANGED files
           ELSE /\ pc' = "plotted"
                /\ error' = error
                /\ files' = files \cup {"_analysis.png"}
    /\ UNCHANGED <<notRing, input, self_results, first, fit_memo,
                   resonance_indices, fit_calls,
                   resonance_results, results>>

\* lines 169-176
Save ==
    /\ pc = "plotted"
    /\ files' = files \cup {"_results.json"}
    /\ LET exc == json_dump(results[1], wavelength_dtype)
       IN  IF exc # "none"
           THEN Raise(exc)
           ELSE pc' = "returned" /\ error' = error
    /\ UNCHANGED <<notRing, input, self_results, first, fit_memo, resonance_indices, fit_calls, resonance_results,
                   results>>

Next == Load \/ FindResonances \/ FitNext \/ Compile \/ Plot \/ Save

Spec == Init /\ [][Next]_vars

(***************************************************************************)
(* find_resonances called on its own on a loaded spectrum, with the default  *)
(* min_depth and a min_separation of 0.01 nm or the default.                 *)
(***************************************************************************)
FlatDipPositions == {30, 61}     \* first of two adjacent samples of a dip
DetectSeparations == {20, min_separation_default}

\* a spectrum with one dip that is two samples wide
FlatDipPowers(N, baseline, at, depth) ==
    [k \in 1..N |-> baseline - (IF k \in {at, at + 1} THEN depth ELSE 0)]

DetectPowerColumns ==
    PowerColumns \cup {FlatDipPowers(MaxLen, b, at, 2 * DeepDip) :
                          b \in Baselines, at \in FlatDipPositions}

InitDetect ==
    /\ columns = RequiredColumns
    /\ wavelength_dtype = "float64"
    /\ powers \in DetectPowerColumns
    /\ wavelengths = Wavelengths(Len(powers), AssumedSampleInterval)
    /\ pc = "loaded"
    /\ error = "none"
    /\ resonance_indices = <<>>
    /\ fit_calls = <<>>
    /\ resonance_results = <<>>
    /\ results = None
    /\ files = {}
    /\ self_results = EmptyDict
    /\ fit_memo = {}
    /\ first = None
    /\ NoFsrCall
    /\ NoIndexCall
    /\ NoInvocations
    /\ NoWorkflow
    /\ NoRunner
    /\ NoRemover

CallFindResonances ==
    /\ pc = "loaded"
    /\ \E min_separation \in DetectSeparations :
         LET r == find_resonances(wavelengths, powers, min_depth_default,
                                  min_separation)
         IN  IF r.exc # "none"
             THEN Raise(r.exc) /\ UNCHANGED resonance_indices
             ELSE /\ pc' = "detected"
                  /\ error' = error
                  /\ resonance_indices' = r.dips
    /\ UNCHANGED <<notRing, input, self_results, first, fit_memo, fit_calls,
                   resonance_results, results, files>>

NextDetect == CallFindResonances

SpecDetect == InitDetect /\ [][NextDetect]_vars

(***************************************************************************)
(* analyze_ring_spectrum called twice on the same file: by the same          *)
(* analyzer object or by a fresh one, whose attribute results is {} as well. *)
(***************************************************************************)
InitTwice ==
    /\ Init
    /\ Len(wavelengths) >= 2 =>
           wavelengths[2] - wavelengths[1] = AssumedSampleInterval

\* the second call starting with the locals of the first
AnalyzeAgain_keeping_results ==
    /\ pc \in {"returned", "raised"}
    /\ first = None
    /\ first' = Some([pc |-> pc, error |-> error,
                      resonance_indices |-> resonance_indices,
                      resonance_results |-> resonance_results,
                      results |-> results])
    /\ self_results' \in {self_results, EmptyDict}
    /\ pc' = "start"
    /\ error' = "none"
    /\ resonance_indices' = <<>>
    /\ fit_calls' = <<>>
    /\ resonance_results' = resonance_results
    /\ results' = None
    /\ UNCHANGED <<notRing, input, files, fit_memo>>

\* the second call: its locals are new (lines 130-131), the files written by
\* the first call are still there
AnalyzeAgain ==
    /\ pc \in {"returned", "raised"}
    /\ first = None
    /\ first' = Some([pc |-> pc, error |-> error,
                      resonance_indices |-> resonance_indices,
                      resonance_results |-> resonance_results,
                      results |-> results])
    /\ self_results' \in {self_results, EmptyDict}
    /\ pc' = "start"
    /\ error' = "none"
    /\ resonance_indices' = <<>>
    /\ fit_calls' = <<>>
    /\ resonance_results' = <<>>
    /\ results' = None
    /\ UNCHANGED <<notRing, input, files, fit_memo>>

NextTwice == Next \/ AnalyzeAgain

SpecTwice == InitTwice /\ [][NextTwice]_vars

(***************************************************************************)
(* Two invocations of one analysis script on different files in the same     *)
(* working directory: main() of ring_q_analysis.py, or analyze_ring_data of  *)
(* ring_resonance_analysis.py.  A file name is <<stem, extension>>; the      *)
(* content of a plot file is the set of spectra drawn on the saved figure,   *)
(* the content of a results file is the spectrum it was computed from.      *)
(***************************************************************************)
Invocations == {1, 2}
Scripts == {"ring_q_analysis", "ring_resonance_analysis"}
CsvFiles == {<<stem, ".csv">> : stem \in {"ring_a", "ring_b", "ring_c"}}

\* csv_file.replace('.csv', new)
replace_csv(name, new) == IF name[2] = ".csv" THEN <<name[1], new>> ELSE name

\* the name of the plot and of the results file an invocation writes
plot_file(s, name) ==
    IF s = "ring_q_analysis" THEN replace_csv(name, "_analysis.png")
    ELSE <<"ring_resonance_analysis", ".png">>
results_file(s, name) ==
    IF s = "ring_q_analysis" THEN replace_csv(name, "_results.json")
    ELSE <<"ring_analysis_results", ".csv">>

\* writing a file replaces the file of that name
write(files_now, name, content) ==
    {f \in files_now : f.name # name}
        \cup {[name |-> name, content |-> content]}

\* the interpreter an invocation runs in, and pyplot's current figure there
interpreter(i) == IF threads THEN 1 ELSE i
gcf(i) == open_figures[interpreter(i)][Len(open_figures[interpreter(i)])]

InitInvocations ==
    /\ script \in Scripts
    /\ threads \in BOOLEAN
    /\ csv_file \in {c \in [Invocations -> CsvFiles] : c[1] # c[2]}
    /\ ipc = [i \in Invocations |-> "start"]
    /\ open_figures = [i \in Invocations |-> <<>>]
    /\ drawn = [i \in Invocations |-> {}]
    /\ fs = {}
    /\ NoAnalysis
    /\ NoFsrCall
    /\ NoIndexCall
    /\ NoWorkflow
    /\ NoRunner
    /\ NoRemover

\* ring_q_analysis.py lines 180-237: plt.subplots makes a figure, which
\* becomes the current one, and the spectrum is drawn on its own axes
QDraw(i) ==
    /\ script = "ring_q_analysis"
    /\ ipc[i] = "start"
    /\ open_figures' = [open_figures EXCEPT ![interpreter(i)] = Append(@, i)]
    /\ drawn' = [drawn EXCEPT ![i] = {csv_file[i]}]
    /\ ipc' = [ipc EXCEPT ![i] = "drawn"]
    /\ UNCHANGED <<notInvocations, script, threads, csv_file, fs>>

\* lines 239-241: plt.savefig saves the current figure
QSavefig(i) ==
    /\ script = "ring_q_analysis"
    /\ ipc[i] = "drawn"
    /\ fs' = write(fs, plot_file(script, csv_file[i]), drawn[gcf(i)])
    /\ ipc' = [ipc EXCEPT ![i] = "saved"]
    /\ UNCHANGED <<notInvocations, script, threads, csv_file, open_figures,
                   drawn>>

\* line 243: plt.close() closes the current figure
QClose(i) ==
    /\ script = "ring_q_analysis"
    /\ ipc[i] = "saved"
    /\ open_figures' = [open_figures EXCEPT ![interpreter(i)] =
                            SubSeq(@, 1, Len(@) - 1)]
    /\ ipc' = [ipc EXCEPT ![i] = "closed"]
    /\ UNCHANGED <<notInvocations, script, threads, csv_file, drawn, fs>>

\* lines 170-173: the results are written
QDump(i) ==
    /\ script = "ring_q_analysis"
    /\ ipc[i] = "closed"
    /\ fs' = write(fs, results_file(script, csv_file[i]), {csv_file[i]})
    /\ ipc' = [ipc EXCEPT ![i] = "done"]
    /\ UNCHANGED <<notInvocations, script, threads, csv_file, open_figures,
                   drawn>>

\* ring_resonance_analysis.py line 107: plt.figure makes a figure, which
\* becomes the current one
RFigure(i) ==
    /\ script = "ring_resonance_analysis"
    /\ ipc[i] = "start"
    /\ open_figures' = [open_figures EXCEPT ![interpreter(i)] = Append(@, i)]
    /\ ipc' = [ipc EXCEPT ![i] = "figure"]
    /\ UNCHANGED <<notInvocations, script, threads, csv_file, drawn, fs>>

\* lines 110-140: plt.subplot and plt.plot draw on the current figure
RPlot(i) ==
    /\ script = "ring_resonance_analysis"
    /\ ipc[i] = "figure"
    /\ drawn' = [drawn EXCEPT ![gcf(i)] = @ \cup {csv_file[i]}]
    /\ ipc' = [ipc EXCEPT ![i] = "drawn"]
    /\ UNCHANGED <<notInvocations, script, threads, csv_file, open_figures,
                   fs>>

\* line 141: plt.savefig saves the current figure
RSavefig(i) ==
    /\ script = "ring_resonance_analysis"
    /\ ipc[i] = "drawn"
    /\ fs' = write(fs, plot_file(script, csv_file[i]), drawn[gcf(i)])
    /\ ipc' = [ipc EXCEPT ![i] = "saved"]
    /\ UNCHANGED <<notInvocations, script, threads, csv_file, open_figures,
                   drawn>>

\* lines 153-154: the results are written
RToCsv(i) ==
    /\ script = "ring_resonance_analysis"
    /\ ipc[i] = "saved"
    /\ fs' = write(fs, results_file(script, csv_file[i]), {csv_file[i]})
    /\ ipc' = [ipc EXCEPT ![i] = "done"]
    /\ UNCHANGED <<notInvocations, script, threads, csv_file, open_figures,
                   drawn>>

NextInvocations ==
    \E i \in Invocations :
        \/ QDraw(i) \/ QSavefig(i) \/ QClose(i) \/ QDump(i)
        \/ RFigure(i) \/ RPlot(i) \/ RSavefig(i) \/ RToCsv(i)

SpecInvocations == InitInvocations /\ [][NextInvocations]_vars

(***************************************************************************)
(* MeasurementWorkflow.run_complete_workflow of measure_workflow.py.  The    *)
(* scripts it runs as subprocesses end with return code 0 or 1; a script     *)
(* that ends with 1 has written none of its files or the first ones.         *)
(* output_dir may hold files of an earlier run.                              *)
(***************************************************************************)
ReturnCodes == {0, 1}
taper_lengths_default == <<5, 10, 20>>

ReferenceFiles ==
    {"reference.csv", "reference_metadata.json", "reference_measurement.png"}

taper_csv(taper_length) ==
    CASE taper_length = 5 -> "taper_5um.csv"
      [] taper_length = 10 -> "taper_10um.csv"
      [] taper_length = 20 -> "taper_20um.csv"
taper_metadata(taper_length) ==
    CASE taper_length = 5 -> "taper_5um_metadata.json"
      [] taper_length = 10 -> "taper_10um_metadata.json"
      [] taper_length = 20 -> "taper_20um_metadata.json"
taper_analysis(taper_length) ==
    CASE taper_length = 5 -> "taper_5um_analysis.png"
      [] taper_length = 10 -> "taper_10um_analysis.png"
      [] taper_length = 20 -> "taper_20um_analysis.png"
taper_results(taper_length) ==
    CASE taper_length = 5 -> "taper_5um_results.json"
      [] taper_length = 10 -> "taper_10um_results.json"
      [] taper_length = 20 -> "taper_20um_results.json"

\* the files run_taper_measurements moves for one taper length
TaperFiles(taper_length) ==
    {taper_csv(taper_length), taper_metadata(taper_length),
     taper_analysis(taper_length)}

\* the files run_analysis moves
AnalysisFiles == {"taper_5um_analysis.png", "taper_5um_results.json"}

\* what measure_reference.py leaves in the current directory
reference_writes(rc) ==
    IF rc = 0 THEN {ReferenceFiles}
    ELSE {{}, {"reference.csv", "reference_metadata.json"}}

\* what measure_taper.py leaves in the current directory: the results and
\* the plot are written only when the insertion loss could be calculated
taper_writes(rc, taper_length) ==
    IF rc = 0
    THEN {TaperFiles(taper_length) \cup {taper_results(taper_length)},
          {taper_csv(taper_length), taper_metadata(taper_length)}}
    ELSE {{}, {taper_csv(taper_length)}}

\* the return codes taper_loss_analysis.py can end with: it reads both of
\* its input files
analysis_return_codes(files_in_out) ==
    IF {"reference.csv", "taper_5um.csv"} \subseteq files_in_out
    THEN ReturnCodes ELSE {1}

ReportFile == "measurement_workflow_report.txt"

\* one subprocess.run: the script, its --taper-length (0 when it has none)
\* and the return code it ended with
Launch(script_name, taper_length, rc) ==
    [script |-> script_name, taper_length |-> taper_length, rc |-> rc]

InitWorkflow ==
    /\ wf_pc = "reference"
    /\ stdout = <<>>
    /\ step_results = <<>>
    /\ taper_todo = <<>>
    /\ success_count = 0
    /\ wf_ret = None
    /\ cwd_files = {}
    /\ out_files \in SUBSET {"reference.csv", "taper_5um.csv"}
    /\ launched = <<>>
    /\ NoAnalysis
    /\ NoFsrCall
    /\ NoIndexCall
    /\ NoInvocations
    /\ NoRunner
    /\ NoRemover

\* a step has returned False: run_complete_workflow returns False
WorkflowFails ==
    /\ wf_pc' = "done"
    /\ wf_ret' = Some(FALSE)

\* lines 150-153: step 1, run_reference_measurement (lines 17-37)
RunReferenceMeasurement ==
    /\ wf_pc = "reference"
    /\ stdout' = Append(stdout, "reference")
    /\ \E rc \in ReturnCodes : \E written \in reference_writes(rc) :
         /\ launched' = Append(launched, Launch("measure_reference.py", 0, rc))
         /\ IF rc = 0
            THEN LET moved == (cwd_files \cup written) \cap ReferenceFiles
                 IN  /\ cwd_files' = (cwd_files \cup written) \ moved
                     /\ out_files' = out_files \cup moved
                     /\ step_results' = Append(step_results, TRUE)
                     /\ wf_pc' = "taper"
                     /\ wf_ret' = wf_ret
            ELSE /\ cwd_files' = cwd_files \cup written
                 /\ out_files' = out_files
                 /\ step_results' = Append(step_results, FALSE)
                 /\ WorkflowFails
    /\ UNCHANGED <<notWorkflow, taper_todo, success_count>>

\* lines 155-158 and 39-48: step 2 begins; without the reference file it
\* returns False at once
StartTaperMeasurements ==
    /\ wf_pc = "taper"
    /\ stdout' = Append(stdout, "taper")
    /\ IF "reference.csv" \notin out_files
       THEN /\ step_results' = Append(step_results, FALSE)
            /\ WorkflowFails
            /\ UNCHANGED <<taper_todo, success_count>>
       ELSE /\ taper_todo' = taper_lengths_default
            /\ success_count' = 0
            /\ wf_pc' = "taper_loop"
            /\ UNCHANGED <<step_results, wf_ret>>
    /\ UNCHANGED <<notWorkflow, cwd_files, out_files, launched>>

\* lines 49-69: one iteration of the loop over the taper lengths
MeasureTaper ==
    /\ wf_pc = "taper_loop"
    /\ taper_todo # <<>>
    /\ LET taper_length == Head(taper_todo)
       IN  \E rc \in ReturnCodes : \E written \in taper_writes(rc, taper_length) :
             /\ launched' = Append(launched,
                                   Launch("measure_taper.py", taper_length, rc))
             /\ IF rc = 0
                THEN LET moved == (cwd_files \cup written)
                                      \cap TaperFiles(taper_length)
                     IN  /\ success_count' = success_count + 1
                         /\ cwd_files' = (cwd_files \cup written) \ moved
                         /\ out_files' = out_files \cup moved
                ELSE /\ success_count' = success_count
                     /\ cwd_files' = cwd_files \cup written
                     /\ out_files' = out_files
    /\ taper_todo' = Tail(taper_todo)
    /\ UNCHANGED <<notWorkflow, wf_pc, stdout, step_results, wf_ret>>

\* line 71 and lines 156-158: step 2 returns success_count > 0
FinishTaperMeasurements ==
    /\ wf_pc = "taper_loop"
    /\ taper_todo = <<>>
    /\ step_results' = Append(step_results, success_count > 0)
    /\ IF success_count > 0
       THEN wf_pc' = "analysis" /\ wf_ret' = wf_ret
       ELSE WorkflowFails
    /\ UNCHANGED <<notWorkflow, stdout, taper_todo, success_count, cwd_files,
                   out_files, launched>>

\* step 3 going on to the report although the analysis failed
RunAnalysis_ignoring_failure ==
    /\ wf_pc = "analysis"
    /\ stdout' = Append(stdout, "analysis")
    /\ \E rc \in analysis_return_codes(out_files) :
         /\ launched' = Append(launched, Launch("taper_loss_analysis.py", 0, rc))
         /\ IF rc = 0
            THEN LET written == {"taper_5um_analysis.png",
                                 "taper_5um_results.json",
                                 "taper_5um_merged.csv"}
                     moved == cwd_files \cap AnalysisFiles
                 IN  /\ cwd_files' = cwd_files \ moved
                     /\ out_files' = out_files \cup written \cup moved
                     /\ step_results' = Append(step_results, TRUE)
                     /\ wf_pc' = "report"
                     /\ wf_ret' = wf_ret
            ELSE /\ UNCHANGED <<cwd_files, out_files>>
                 /\ step_results' = Append(step_results, FALSE)
                 /\ wf_pc' = "report"
                 /\ wf_ret' = wf_ret
    /\ UNCHANGED <<notWorkflow, taper_todo, success_count>>

\* lines 160-163: step 3, run_analysis (lines 73-95); taper_loss_analysis.py
\* writes its files next to the taper file, in output_dir
RunAnalysis ==
    /\ wf_pc = "analysis"
    /\ stdout' = Append(stdout, "analysis")
    /\ \E rc \in analysis_return_codes(out_files) :
         /\ launched' = Append(launched, Launch("taper_loss_analysis.py", 0, rc))
         /\ IF rc = 0
            THEN LET written == {"taper_5um_analysis.png",
                                 "taper_5um_results.json",
                                 "taper_5um_merged.csv"}
                     moved == cwd_files \cap AnalysisFiles
                 IN  /\ cwd_files' = cwd_files \ moved
                     /\ out_files' = out_files \cup written \cup moved
                     /\ step_results' = Append(step_results, TRUE)
                     /\ wf_pc' = "report"
                     /\ wf_ret' = wf_ret
            ELSE /\ UNCHANGED <<cwd_files, out_files>>
                 /\ step_results' = Append(step_results, FALSE)
                 /\ WorkflowFails
    /\ UNCHANGED <<notWorkflow, taper_todo, success_count>>

\* lines 165-171: step 4, generate_report (lines 97-142), and return True
GenerateReport ==
    /\ wf_pc = "report"
    /\ stdout' = Append(stdout, "report")
    /\ out_files' = out_files \cup {ReportFile}
    /\ wf_pc' = "done"
    /\ wf_ret' = Some(TRUE)
    /\ UNCHANGED <<notWorkflow, step_results, taper_todo, success_count,
                   cwd_files, launched>>

NextWorkflow ==
    \/ RunReferenceMeasurement
    \/ StartTaperMeasurements
    \/ MeasureTaper
    \/ FinishTaperMeasurements
    \/ RunAnalysis
    \/ GenerateReport

SpecWorkflow == InitWorkflow /\ [][NextWorkflow]_vars

\* ---------------------------------------------------------------------
\* The methods of MeasurementWorkflow called one by one, in any order, on
\* one object (measure_workflow.py lines 17-142).  wf_pc is "free" between
\* two calls; step_results collects what the calls returned.
\* ---------------------------------------------------------------------

MaxCalls == 3

\* the taper_lengths a caller passes; the default is [5, 10, 20]
TaperLengthLists == {taper_lengths_default, <<10>>, <<>>}

InitMethods ==
    /\ wf_pc = "free"
    /\ stdout = <<>>
    /\ step_results = <<>>
    /\ taper_todo = <<>>
    /\ success_count = 0
    /\ wf_ret = None
    /\ cwd_files = {}
    /\ out_files \in SUBSET {"reference.csv", "taper_5um.csv"}
    /\ launched = <<>>
    /\ NoAnalysis
    /\ NoFsrCall
    /\ NoIndexCall
    /\ NoInvocations
    /\ NoRunner
    /\ NoRemover

\* lines 17-37
CallRunReferenceMeasurement ==
    /\ wf_pc = "free"
    /\ Len(stdout) < MaxCalls
    /\ stdout' = Append(stdout, "reference")
    /\ \E rc \in ReturnCodes : \E written \in reference_writes(rc) :
         /\ launched' = Append(launched, Launch("measure_reference.py", 0, rc))
         /\ IF rc = 0
            THEN LET moved == (cwd_files \cup written) \cap ReferenceFiles
                 IN  /\ cwd_files' = (cwd_files \cup written) \ moved
                     /\ out_files' = out_files \cup moved
                     /\ step_results' = Append(step_results, TRUE)
            ELSE /\ cwd_files' = cwd_files \cup written
                 /\ out_files' = out_files
                 /\ step_results' = Append(step_results, FALSE)
    /\ UNCHANGED <<notWorkflow, wf_pc, wf_ret, taper_todo, success_count>>

\* run_taper_measurements going on to the measurements without looking for
\* the reference file
CallRunTaperMeasurements_unchecked ==
    /\ wf_pc = "free"
    /\ Len(stdout) < MaxCalls
    /\ stdout' = Append(stdout, "taper")
    /\ \E taper_lengths \in TaperLengthLists :
         /\ taper_todo' = taper_lengths
         /\ success_count' = 0
         /\ wf_pc' = "taper_loop"
         /\ UNCHANGED step_results
    /\ UNCHANGED <<notWorkflow, wf_ret, cwd_files, out_files, launched>>

\* lines 39-48: run_taper_measurements up to its loop
CallRunTaperMeasurements ==
    /\ wf_pc = "free"
    /\ Len(stdout) < MaxCalls
    /\ stdout' = Append(stdout, "taper")
    /\ \E taper_lengths \in TaperLengthLists :
         IF "reference.csv" \notin out_files
         THEN /\ step_results' = Append(step_results, FALSE)
              /\ UNCHANGED <<wf_pc, taper_todo, success_count>>
         ELSE /\ taper_todo' = taper_lengths
              /\ success_count' = 0
              /\ wf_pc' = "taper_loop"
              /\ UNCHANGED step_results
    /\ UNCHANGED <<notWorkflow, wf_ret, cwd_files, out_files, launched>>

\* line 71: run_taper_measurements returns success_count > 0
ReturnFromTaperMeasurements ==
    /\ wf_pc = "taper_loop"
    /\ taper_todo = <<>>
    /\ step_results' = Append(step_results, success_count > 0)
    /\ wf_pc' = "free"
    /\ UNCHANGED <<notWorkflow, stdout, wf_ret, taper_todo, success_count,
                   cwd_files, out_files, launched>>

\* lines 73-95
CallRunAnalysis ==
    /\ wf_pc = "free"
    /\ Len(stdout) < MaxCalls
    /\ stdout' = Append(stdout, "analysis")
    /\ \E rc \in analysis_return_codes(out_files) :
         /\ launched' = Append(launched, Launch("taper_loss_analysis.py", 0, rc))
         /\ IF rc = 0
            THEN LET written == {"taper_5um_analysis.png",
                                 "taper_5um_results.json",
                                 "taper_5um_merged.csv"}
                     moved == cwd_files \cap AnalysisFiles
                 IN  /\ cwd_files' = cwd_files \ moved
                     /\ out_files' = out_files \cup written \cup moved
                     /\ step_results' = Append(step_results, TRUE)
            ELSE /\ UNCHANGED <<cwd_files, out_files>>
                 /\ step_results' = Append(step_results, FALSE)
    /\ UNCHANGED <<notWorkflow, wf_pc, wf_ret, taper_todo, success_count>>

\* lines 97-142: generate_report returns the report text, not a flag
CallGenerateReport ==
    /\ wf_pc = "free"
    /\ Len(stdout) < MaxCalls
    /\ stdout' = Append(stdout, "report")
    /\ out_files' = out_files \cup {ReportFile}
    /\ UNCHANGED <<notWorkflow, wf_pc, wf_ret, step_results, taper_todo,
                   success_count, cwd_files, launched>>

NextMethods ==
    \/ CallRunReferenceMeasurement
    \/ CallRunTaperMeasurements
    \/ MeasureTaper
    \/ ReturnFromTaperMeasurements
    \/ CallRunAnalysis
    \/ CallGenerateReport

SpecMethods == InitMethods /\ [][NextMethods]_vars

\* ---------------------------------------------------------------------
\* ExperimentRunner (experiment_runner.py).  A str is the sequence of its
\* characters, so that lower-casing and the search for a keyword are
\* computed; a path is the str glob returns.
\* ---------------------------------------------------------------------

MaxFiles == 2

UpperCase ==
    <<"A", "B", "C", "D", "E", "F", "G", "H", "I", "J", "K", "L", "M",
      "N", "O", "P", "Q", "R", "S", "T", "U", "V", "W", "X", "Y", "Z">>
LowerCase ==
    <<"a", "b", "c", "d", "e", "f", "g", "h", "i", "j", "k", "l", "m",
      "n", "o", "p", "q", "r", "s", "t", "u", "v", "w", "x", "y", "z">>

\* str.lower()
lower(s) ==
    [i \in 1..Len(s) |->
        IF \E k \in 1..Len(UpperCase) : UpperCase[k] = s[i]
        THEN LowerCase[CHOOSE k \in 1..Len(UpperCase) : UpperCase[k] = s[i]]
        ELSE s[i]]

\* keyword in s
contains(s, keyword) ==
    \E i \in 0..(Len(s) - Len(keyword)) :
        SubSeq(s, i + 1, i + Len(keyword)) = keyword

\* os.path.basename and os.path.dirname
basename(path) ==
    LET slashes == {i \in 1..Len(path) : path[i] = "/"}
    IN  IF slashes = {} THEN path
        ELSE SubSeq(path, SetMax(slashes) + 1, Len(path))
dirname(path) ==
    LET slashes == {i \in 1..Len(path) : path[i] = "/"}
    IN  IF slashes = {} THEN <<>>
        ELSE SubSeq(path, 1, SetMax(slashes) - 1)

\* the keywords of lines 42, 44, 46 and 48
cutback_keywords ==
    {<<"c", "u", "t", "b", "a", "c", "k">>,
     <<"s", "t", "r", "a", "i", "g", "h", "t">>,
     <<"l", "e", "n", "g", "t", "h">>}
taper_keywords ==
    {<<"t", "a", "p", "e", "r">>,
     <<"w", "i", "d", "e">>,
     <<"n", "a", "r", "r", "o", "w">>}
ring_keywords ==
    {<<"r", "i", "n", "g">>,
     <<"r", "e", "s", "o", "n", "a", "n", "c", "e">>,
     <<"s", "p", "e", "c", "t", "r", "u", "m">>}
pcm_keywords ==
    {<<"p", "c", "m">>,
     <<"d", "o", "p", "i", "n", "g">>,
     <<"e", "t", "c", "h">>,
     <<"w", "i", "d", "t", "h">>}

Categories == <<"cutback", "taper", "ring", "pcm", "other">>

\* the chain of lines 40-51 comparing the file name as glob returned it
category_case_sensitive(file_path) ==
    LET filename == basename(file_path)
    IN  IF \E keyword \in cutback_keywords : contains(filename, keyword)
        THEN "cutback"
        ELSE IF \E keyword \in taper_keywords : contains(filename, keyword)
        THEN "taper"
        ELSE IF \E keyword \in ring_keywords : contains(filename, keyword)
        THEN "ring"
        ELSE IF \E keyword \in pcm_keywords : contains(filename, keyword)
        THEN "pcm"
        ELSE "other"

\* lines 40-51: the list one file is appended to
category(file_path) ==
    LET filename == lower(basename(file_path))
    IN  IF \E keyword \in cutback_keywords : contains(filename, keyword)
        THEN "cutback"
        ELSE IF \E keyword \in taper_keywords : contains(filename, keyword)
        THEN "taper"
        ELSE IF \E keyword \in ring_keywords : contains(filename, keyword)
        THEN "ring"
        ELSE IF \E keyword \in pcm_keywords : contains(filename, keyword)
        THEN "pcm"
        ELSE "other"

\* lines 26-53: every list holds its files in the order glob returned them
discover_data_files(paths) ==
    [c \in {Categories[k] : k \in 1..Len(Categories)} |->
        SelectSeq(paths, LAMBDA file_path : category(file_path) = c)]

\* the sequences of at most n different members of S
RECURSIVE DistinctSeqs(_, _)
DistinctSeqs(S, n) ==
    IF n = 0 THEN {<<>>}
    ELSE LET shorter == DistinctSeqs(S, n - 1)
             longest == {q \in shorter : Len(q) = n - 1}
         IN  shorter \cup
             UNION {{Append(q, x) : x \in S \ {q[k] : k \in 1..Len(q)}} :
                    q \in longest}

\* a call of discover_data_files on its own: the files glob may return
DiscoverNames ==
    {<<"c", "u", "t", "b", "a", "c", "k", "_", "1", ".", "c", "s", "v">>,
     <<"T", "a", "p", "e", "r", "_", "A", ".", "c", "s", "v">>,
     <<"r", "i", "n", "g", ".", "c", "s", "v">>,
     <<"P", "C", "M", ".", "c", "s", "v">>,
     <<"d", "a", "t", "a", ".", "c", "s", "v">>,
     <<"t", "a", "p", "e", "r", "_", "l", "e", "n", "g", "t", "h", ".", "c", "s", "v">>,
     <<"r", "i", "n", "g", "_", "w", "i", "d", "t", "h", ".", "c", "s", "v">>,
     <<"w", "i", "d", "e", "_", "r", "i", "n", "g", ".", "c", "s", "v">>,
     <<"S", "p", "e", "c", "t", "r", "u", "m", ".", "c", "s", "v">>,
     <<"e", "t", "c", "h", "_", "N", "A", "R", "R", "O", "W", ".", "c", "s", "v">>}
DiscoverDirs ==
    {<<"d", "/">>,
     <<"d", "/", "r", "i", "n", "g", "/">>}
DiscoverPaths == {d \o n : d \in DiscoverDirs, n \in DiscoverNames}

InitDiscover ==
    /\ run_pc = "call_discover"
    /\ csv_files \in DistinctSeqs(DiscoverPaths, MaxFiles)
    /\ data_dir_exists \in IF csv_files = <<>> THEN BOOLEAN ELSE {TRUE}
    /\ data_files = None
    /\ run_todo = <<>>
    /\ results_summary = {}
    /\ attempts = <<>>
    /\ run_error = None
    /\ report_files = 0
    /\ NoAnalysis
    /\ NoFsrCall
    /\ NoIndexCall
    /\ NoInvocations
    /\ NoWorkflow
    /\ NoRemover

CallDiscoverDataFiles ==
    /\ run_pc = "call_discover"
    /\ data_files' = Some(discover_data_files(csv_files))
    /\ run_pc' = "returned"
    /\ UNCHANGED <<notRunner, data_dir_exists, csv_files, run_todo,
                   results_summary, attempts, run_error, report_files>>

NextDiscover == CallDiscoverDataFiles

SpecDiscover == InitDiscover /\ [][NextDiscover]_vars

\* ---------------------------------------------------------------------
\* run_complete_analysis (lines 233-264), one file of a loop per step.
\* The CSV files are all the files of the data directory.
\* ---------------------------------------------------------------------

\* the JSON objects a results file can hold, by the keys that
\* generate_summary_report reads (lines 177-182); None is a missing key
Results(propagation_loss, resonances, insertion_loss) ==
    [propagation_loss_dB_cm |-> propagation_loss,
     resonance_results |-> resonances,
     mean_insertion_loss |-> insertion_loss]
ResultContents ==
    {Results(None, None, None),
     Results(Some(2), None, None),
     Results(None, Some(<<>>), None),
     Results(None, Some(<<[Q_factor |-> 10000]>>), None),
     Results(None, None, Some(1))}

\* a results file: valid JSON holding an object, or text json.load rejects
JsonFiles ==
    {[valid |-> FALSE, value |-> Results(None, None, None)]}
        \cup {[valid |-> TRUE, value |-> c] : c \in ResultContents}

\* how the analysis of one file can end: subprocess.run raises, or the
\* script ends with a return code; the results file, left by this run or
\* an earlier one, exists or not when line 69 looks for it
Outcome(raised, returncode, result_file) ==
    [raised |-> raised, returncode |-> returncode, result_file |-> result_file]
AnalysisOutcomes ==
    {Outcome(TRUE, 1, None), Outcome(FALSE, 1, None),
     Outcome(FALSE, 1, Some([valid |-> TRUE, value |-> Results(Some(2), None, None)])),
     Outcome(FALSE, 0, None)}
        \cup {Outcome(FALSE, 0, Some(j)) : j \in JsonFiles}
PcmOutcomes ==
    {Outcome(TRUE, 1, None), Outcome(FALSE, 1, None), Outcome(FALSE, 0, None)}

\* self.data_dir and the CSV files it can hold
data_dir == <<"d">>
RunnerPaths ==
    {<<"d", "/", "c", "u", "t", "b", "a", "c", "k", ".", "c", "s", "v">>,
     <<"d", "/", "t", "a", "p", "e", "r", ".", "c", "s", "v">>,
     <<"d", "/", "r", "e", "f", "e", "r", "e", "n", "c", "e", ".", "c", "s", "v">>,
     <<"d", "/", "r", "i", "n", "g", ".", "c", "s", "v">>,
     <<"d", "/", "r", "/", "r", "i", "n", "g", ".", "c", "s", "v">>,
     <<"d", "/", "p", "c", "m", ".", "c", "s", "v">>}

InitRunner ==
    /\ run_pc = "discover"
    /\ csv_files \in DistinctSeqs(RunnerPaths, MaxFiles)
    /\ data_dir_exists \in IF csv_files = <<>> THEN BOOLEAN ELSE {TRUE}
    /\ data_files = None
    /\ run_todo = <<>>
    /\ results_summary = {}
    /\ attempts = <<>>
    /\ run_error = None
    /\ report_files = 0
    /\ NoAnalysis
    /\ NoFsrCall
    /\ NoIndexCall
    /\ NoInvocations
    /\ NoWorkflow
    /\ NoRemover

\* lines 239-246
Discover ==
    /\ run_pc = "discover"
    /\ data_files' = Some(discover_data_files(csv_files))
    /\ run_pc' = "cutback"
    /\ UNCHANGED <<notRunner, data_dir_exists, csv_files, run_todo,
                   results_summary, attempts, run_error, report_files>>

\* lines 249-250, 252-253 and 255-256: a category is analysed when its
\* list is not empty
StartAnalysis(at_pc, category_name, loop_pc, next_pc) ==
    /\ run_pc = at_pc
    /\ IF data_files[1][category_name] # <<>>
       THEN /\ run_todo' = data_files[1][category_name]
            /\ run_pc' = loop_pc
       ELSE /\ run_todo' = run_todo
            /\ run_pc' = next_pc
    /\ UNCHANGED <<notRunner, data_dir_exists, csv_files, data_files,
                   results_summary, attempts, run_error, report_files>>

\* dict item assignment, self.results_summary[name] = value; an entry also
\* records the file whose analysis stored it
store(summary, file_path, value) ==
    {e \in summary : e.name # basename(file_path)}
        \cup {[name |-> basename(file_path), from |-> file_path,
               results |-> value]}

\* the body of the loops without try: an exception leaves
\* run_complete_analysis
AnalyzeNext_without_try(loop_pc, next_pc, script_name) ==
    /\ run_pc = loop_pc
    /\ run_todo # <<>>
    /\ \E outcome \in AnalysisOutcomes :
         LET file_path == Head(run_todo)
             loaded == /\ ~outcome.raised
                       /\ outcome.returncode = 0
                       /\ outcome.result_file # None
             fails == outcome.raised \/ (loaded /\ ~outcome.result_file[1].valid)
         IN  /\ attempts' = Append(attempts, [script |-> script_name,
                                              file |-> file_path,
                                              outcome |-> outcome])
             /\ results_summary' =
                    IF loaded /\ outcome.result_file[1].valid
                    THEN store(results_summary, file_path,
                               outcome.result_file[1].value)
                    ELSE results_summary
             /\ run_error' = IF fails THEN Some("Exception") ELSE run_error
             /\ run_todo' = Tail(run_todo)
             /\ run_pc' = IF fails THEN "raised"
                          ELSE IF Tail(run_todo) = <<>> THEN next_pc
                          ELSE loop_pc
    /\ UNCHANGED <<notRunner, data_dir_exists, csv_files, data_files,
                   report_files>>

\* lines 59-76, 87-102 and 127-143: the analysis of the next file of the
\* running loop; the except clause swallows what subprocess.run, open and
\* json.load raise
AnalyzeNext(loop_pc, next_pc, script_name) ==
    /\ run_pc = loop_pc
    /\ run_todo # <<>>
    /\ \E outcome \in AnalysisOutcomes :
         LET file_path == Head(run_todo)
             loaded == /\ ~outcome.raised
                       /\ outcome.returncode = 0
                       /\ outcome.result_file # None
         IN  /\ attempts' = Append(attempts, [script |-> script_name,
                                              file |-> file_path,
                                              outcome |-> outcome])
             /\ results_summary' =
                    IF loaded /\ outcome.result_file[1].valid
                    THEN store(results_summary, file_path,
                               outcome.result_file[1].value)
                    ELSE results_summary
             /\ run_error' = run_error
             /\ run_todo' = Tail(run_todo)
             /\ run_pc' = IF Tail(run_todo) = <<>> THEN next_pc ELSE loop_pc
    /\ UNCHANGED <<notRunner, data_dir_exists, csv_files, data_files,
                   report_files>>

\* lines 110-113: the files of the taper file's directory whose name holds
\* reference and whose lower-cased path holds no taper
reference_keyword == <<"r", "e", "f", "e", "r", "e", "n", "c", "e">>
taper_keyword == <<"t", "a", "p", "e", "r">>
ref_candidates(taper_file) ==
    SelectSeq(csv_files,
              LAMBDA file :
                  /\ dirname(file) = dirname(taper_file)
                  /\ contains(basename(file), reference_keyword)
                  /\ ~contains(lower(file), taper_keyword))

\* lines 249-250 and 55-76
StartCutbackAnalysis ==
    /\ run_pc = "cutback"
    /\ StartAnalysis("cutback", "cutback", "cutback_loop", "taper")
AnalyzeCutbackFile ==
    /\ run_pc = "cutback_loop"
    /\ AnalyzeNext("cutback_loop", "taper", "cutback_analysis.py")

\* lines 252-253 and 78-102
StartTaperAnalysis ==
    /\ run_pc = "taper"
    /\ StartAnalysis("taper", "taper", "taper_loop", "ring")

\* lines 85-86 and 115-119: a taper file without reference is passed over
SkipTaperFile ==
    /\ run_pc = "taper_loop"
    /\ run_todo # <<>>
    /\ ref_candidates(Head(run_todo)) = <<>>
    /\ run_todo' = Tail(run_todo)
    /\ run_pc' = IF Tail(run_todo) = <<>> THEN "ring" ELSE "taper_loop"
    /\ UNCHANGED <<notRunner, data_dir_exists, csv_files, data_files,
                   results_summary, attempts, run_error, report_files>>

AnalyzeTaperFile ==
    /\ run_pc = "taper_loop"
    /\ run_todo # <<>>
    /\ ref_candidates(Head(run_todo)) # <<>>
    /\ AnalyzeNext("taper_loop", "ring", "taper_loss_analysis.py")

\* lines 255-256 and 123-143
StartRingAnalysis ==
    /\ run_pc = "ring"
    /\ StartAnalysis("ring", "ring", "ring_loop", "pcm")
AnalyzeRingFile ==
    /\ run_pc = "ring_loop"
    /\ AnalyzeNext("ring_loop", "pcm", "ring_q_analysis.py")

\* lines 258-259 and 145-160
RunPcmCorrelation ==
    /\ run_pc = "pcm"
    /\ IF data_files[1]["pcm"] # <<>>
       THEN \E outcome \in PcmOutcomes :
                attempts' = Append(attempts, [script |-> "pcm_correlation.py",
                                              file |-> data_dir,
                                              outcome |-> outcome])
       ELSE attempts' = attempts
    /\ run_pc' = "report"
    /\ UNCHANGED <<notRunner, data_dir_exists, csv_files, data_files,
                   run_todo, results_summary, run_error, report_files>>

\* lines 172-182: the three lists of the summary statistics, as the entries
\* that contribute to them
propagation_losses(summary) ==
    {e \in summary : e.results.propagation_loss_dB_cm # None}
q_factors(summary) ==
    {e \in summary : /\ e.results.resonance_results # None
                     /\ e.results.resonance_results[1] # <<>>}
insertion_losses(summary) ==
    {e \in summary : e.results.mean_insertion_loss # None}

\* lines 262-264 and 162-211: the module never imports numpy, so np.mean
\* (lines 186-197), evaluated for a list that is not empty, raises
\* NameError; open (line 203) raises when the data directory is missing
GenerateSummaryReport ==
    /\ run_pc = "report"
    /\ IF \/ propagation_losses(results_summary) # {}
          \/ q_factors(results_summary) # {}
          \/ insertion_losses(results_summary) # {}
       THEN /\ run_error' = Some("NameError")
            /\ run_pc' = "raised"
            /\ report_files' = report_files
       ELSE IF ~data_dir_exists
       THEN /\ run_error' = Some("FileNotFoundError")
            /\ run_pc' = "raised"
            /\ report_files' = report_files
       ELSE /\ run_error' = run_error
            /\ run_pc' = "complete"
            /\ report_files' = report_files + 1
    /\ UNCHANGED <<notRunner, data_dir_exists, csv_files, data_files,
                   run_todo, results_summary, attempts>>

NextRunner ==
    \/ Discover
    \/ StartCutbackAnalysis
    \/ AnalyzeCutbackFile
    \/ StartTaperAnalysis
    \/ SkipTaperFile
    \/ AnalyzeTaperFile
    \/ StartRingAnalysis
    \/ AnalyzeRingFile
    \/ RunPcmCorrelation
    \/ GenerateSummaryReport

SpecRunner == InitRunner /\ [][NextRunner]_vars

\* ---------------------------------------------------------------------
\* remove_comments_and_mdash (remove.py) applied again and again to one
\* file.  A line is the sequence of its characters, the line end included;
\* the em dash is the one character written "mdash".
\* ---------------------------------------------------------------------

MaxLines == 3
MaxRuns == 2

\* str.strip()
Whitespace == {" ", "\t", "\n"}
strip(s) ==
    LET black == {i \in 1..Len(s) : s[i] \notin Whitespace}
    IN  IF black = {} THEN <<>> ELSE SubSeq(s, SetMin(black), SetMax(black))

triple_quote == <<"\"", "\"", "\"">>
hash_sign == <<"#">>
em_dash == <<"mdash">>

\* the body of the loop keeping a line that closes a block
line_step_keeping_closing_quotes(line, inside_triple) ==
    LET stripped == strip(line)
    IN  IF contains(stripped, triple_quote)
        THEN [keep |-> inside_triple, inside_triple |-> ~inside_triple]
        ELSE IF inside_triple
        THEN [keep |-> FALSE, inside_triple |-> inside_triple]
        ELSE IF contains(stripped, hash_sign) \/ contains(stripped, em_dash)
        THEN [keep |-> FALSE, inside_triple |-> inside_triple]
        ELSE [keep |-> TRUE, inside_triple |-> inside_triple]

\* lines 14-32: the body of the loop for one line; a line holding three
\* double quotes toggles inside_triple once, however often it holds them
line_step(line, inside_triple) ==
    LET stripped == strip(line)
    IN  IF contains(stripped, triple_quote)
        THEN [keep |-> FALSE, inside_triple |-> ~inside_triple]
        ELSE IF inside_triple
        THEN [keep |-> FALSE, inside_triple |-> inside_triple]
        ELSE IF contains(stripped, hash_sign) \/ contains(stripped, em_dash)
        THEN [keep |-> FALSE, inside_triple |-> inside_triple]
        ELSE [keep |-> TRUE, inside_triple |-> inside_triple]

\* lines 9-32: the loop from line i on; kept holds the numbers of the lines
\* appended to clean_lines
RECURSIVE clean_from(_, _, _)
clean_from(lines, i, inside_triple) ==
    IF i > Len(lines) THEN [kept |-> <<>>, removed_count |-> 0]
    ELSE LET step == line_step(lines[i], inside_triple)
             rest == clean_from(lines, i + 1, step.inside_triple)
         IN  IF step.keep
             THEN [kept |-> <<i>> \o rest.kept,
                   removed_count |-> rest.removed_count]
             ELSE [kept |-> rest.kept,
                   removed_count |-> rest.removed_count + 1]

\* the lines a file is made of
LineTexts ==
    {<<"x", "\n">>,
     <<" ", "y", "\n">>,
     <<" ", "#", "c", "\n">>,
     <<"x", " ", "#", "\n">>,
     <<"a", "mdash", "b", "\n">>,
     <<"\"", "\"", "\"", "\n">>,
     <<" ", "\"", "\"", "\"", "D", "\n">>,
     <<" ", "\"", "\"", "\"", "D", "\"", "\"", "\"", "\n">>,
     <<"s", "\"", "\"", "\n">>}

\* the sequences of at most n lines
RECURSIVE Files(_)
Files(n) ==
    IF n = 0 THEN {<<>>}
    ELSE Files(n - 1) \cup
         {Append(f, line) : f \in {g \in Files(n - 1) : Len(g) = n - 1},
                            line \in LineTexts}

InitRemove ==
    /\ file_content \in Files(MaxLines)
    /\ earlier_contents = <<>>
    /\ applications = <<>>
    /\ NoAnalysis
    /\ NoFsrCall
    /\ NoIndexCall
    /\ NoInvocations
    /\ NoWorkflow
    /\ NoRunner

\* lines 5-37: the file is read, cleaned and written back
RemoveCommentsAndMdash ==
    /\ Len(earlier_contents) < MaxRuns
    /\ LET cleaned == clean_from(file_content, 1, FALSE)
       IN  /\ file_content' = [k \in 1..Len(cleaned.kept) |->
                                  file_content[cleaned.kept[k]]]
           /\ applications' = Append(applications, cleaned)
    /\ earlier_contents' = Append(earlier_contents, file_content)
    /\ UNCHANGED notRemover

NextRemove == RemoveCommentsAndMdash

SpecRemove == InitRemove /\ [][NextRemove]_vars

(***************************************************************************)
(* The effective index computed on its own from a free spectral range, by    *)
(* calculate_effective_index and by the lines of analyze_all_resonances.     *)
(***************************************************************************)
\* free spectral ranges: 1.55 nm, 9.6 nm, 0.1 nm, 4.8 nm, 0.75 pm, 1/3 pm,
\* half a picometre, and 0 (two fits with the same centre)
FsrValues == {<<3100, 1>>, <<19200, 1>>, <<200, 1>>, <<9600, 1>>,
              <<3, 2>>, <<2, 3>>, <<1, 1>>, <<0, 1>>}
Radii == {5, 10, 20, 50}

InitIndex ==
    /\ index_fsr \in FsrValues
    /\ index_radius \in Radii
    /\ index_ret = None
    /\ all_n_eff = None
    /\ NoAnalysis
    /\ NoFsrCall
    /\ NoInvocations
    /\ NoWorkflow
    /\ NoRunner
    /\ NoRemover

CallCalculateEffectiveIndex ==
    /\ index_ret = None
    /\ index_ret' = Some(calculate_effective_index(index_fsr, index_radius))
    /\ UNCHANGED <<notIndexCall, index_fsr, index_radius, all_n_eff>>

AnalyzeAllEffectiveIndex ==
    /\ all_n_eff = None
    /\ all_n_eff' = Some(analyze_all_n_eff(index_fsr))
    /\ UNCHANGED <<notIndexCall, index_fsr, index_radius, index_ret>>

NextIndex == CallCalculateEffectiveIndex \/ AnalyzeAllEffectiveIndex

SpecIndex == InitIndex /\ [][NextIndex]_vars

(***************************************************************************)
(* calculate_fsr called on its own with a list of centre wavelengths.       *)
(***************************************************************************)
MaxResonances == 3               \* longest list of centre wavelengths
FsrOffsets == {0, 1, 3, 6}       \* centre wavelengths, from StartWavelength

ResonanceLists ==
    UNION {[1..n -> {StartWavelength + o : o \in FsrOffsets}] :
           n \in 0..MaxResonances}

InitFsr ==
    /\ fsr_arg \in ResonanceLists
    /\ fsr_ret = None
    /\ NoAnalysis
    /\ NoIndexCall
    /\ NoInvocations
    /\ NoWorkflow
    /\ NoRunner
    /\ NoRemover

CallCalculateFsr ==
    /\ fsr_ret = None
    /\ fsr_ret' = Some(calculate_fsr(fsr_arg))
    /\ UNCHANGED <<notFsrCall, fsr_arg>>

NextFsr == CallCalculateFsr

SpecFsr == InitFsr /\ [][NextFsr]_vars

(***************************************************************************)
(* Properties.                                                               *)
(***************************************************************************)
WellFormed == columns = RequiredColumns
DetectionDone == pc \in {"fitting", "compiled", "plotted", "returned"}
DetectionLeft == pc \notin {"start", "loaded"}
Candidates == {resonance_indices[k] : k \in DOMAIN resonance_indices}
Returned == {k \in DOMAIN fit_calls : fit_calls[k].ret # None}
ReturnedSeq == SelectSeq(fit_calls, LAMBDA c : c.ret # None)
RegionSize(idx) ==
    Cardinality({k \in DOMAIN wavelengths :
                    Abs(wavelengths[k] - wavelengths[idx]) <= window_default})
Positive(q) == q[1] > 0 /\ q[2] > 0

\* C1: once detection has been run on a well-formed spectrum with fewer
\* samples than the smoothing window, no exception has been raised and the
\* candidate sequence is empty.
C1_ShortSpectrumGivesNoCandidates ==
    (WellFormed /\ Len(powers) < window_length /\ DetectionLeft)
        => (pc # "raised" /\ error = "none" /\ resonance_indices = <<>>)

\* C2: every resonance returned by fit_single_resonance has fwhm_nm > 0 and
\* Q_factor > 0, whatever gamma the fit converged to.
C2_WidthAndQPositive ==
    \A k \in Returned :
        /\ fit_calls[k].ret[1].fwhm_nm > 0
        /\ Positive(fit_calls[k].ret[1].Q_factor)

\* C3: the centre wavelength of every fitted resonance of a result lies in
\* its fit_region and in the wavelength_range of the result.
C3_CentreInsideFitWindow ==
    results # None =>
        \A k \in DOMAIN results[1].resonance_results :
            LET r == results[1].resonance_results[k]
            IN  /\ r.fit_region[1] <= r.resonance_wavelength
                /\ r.resonance_wavelength <= r.fit_region[2]
                /\ results[1].wavelength_range[1] <= r.resonance_wavelength
                /\ r.resonance_wavelength <= results[1].wavelength_range[2]

\* C4: any two candidates returned by find_resonances are at least
\* min_separation apart in wavelength, whatever the sampling interval.
C4_CandidatesMinSeparationApart ==
    DetectionDone =>
        \A a, b \in Candidates :
            a # b => Abs(wavelengths[a] - wavelengths[b])
                         >= min_separation_default

\* C5: a candidate lies at least min_depth dB below some other sample of the
\* smoothed trace, and the candidates do not change when every power is
\* shifted by the same number of dB.
ShiftOffsets == {-20, 20}
Shifted(pw, off) == [k \in DOMAIN pw |-> pw[k] + off]
C5_DepthRelativeToBaseline ==
    (pc = "fitting" /\ fit_calls = <<>>) =>
        /\ LET smoothed == savgol_filter(powers)
           IN  \A c \in Candidates :
                   SeqMax(smoothed) - smoothed[c]
                       >= min_depth_default * SavgolDen
        /\ \A off \in ShiftOffsets :
               find_resonances(wavelengths, Shifted(powers, off),
                               min_depth_default, min_separation_default).dips
                   = resonance_indices

\* C6: the fsr_nm of a result is not None exactly when at least two calls of
\* fit_single_resonance returned a resonance; with fewer, fsr_nm and
\* fsr_std_nm are both None.
C6_FsrDefinedIffTwoFitted ==
    results # None =>
        /\ results[1].fsr_nm # None <=> Cardinality(Returned) >= 2
        /\ Cardinality(Returned) < 2 =>
               results[1].fsr_nm = None /\ results[1].fsr_std_nm = None
C6_Witness ==
    /\ results # None
    /\ Cardinality(Returned) = 2
    /\ results[1].fsr_nm # None
    /\ results[1].fsr_nm[1] > 0

\* C7: in every result group_index and effective_index are None when fsr_nm
\* is None and not None when fsr_nm is not None.
C7_IndexDefinedIffFsrDefined ==
    results # None =>
        /\ results[1].group_index = None <=> results[1].fsr_nm = None
        /\ results[1].effective_index = None <=> results[1].fsr_nm = None
C7_Witness ==
    /\ results # None
    /\ Cardinality(Returned) = 1
    /\ results[1].fsr_nm = None
    /\ results[1].group_index = None
    /\ results[1].effective_index = None

\* C8: an exception of the least-squares fit never leaves the analysis; the
\* call returns None, every candidate is passed to fit_single_resonance in
\* order, and the result lists exactly the resonances the calls returned.
C8_FitFailureNotFatal ==
    /\ error # "RuntimeError"
    /\ \A k \in DOMAIN fit_calls :
           /\ fit_calls[k].idx = resonance_indices[k]
           /\ fit_calls[k].fit_raised => fit_calls[k].ret = None
    /\ results # None =>
           /\ Len(fit_calls) = Len(resonance_indices)
           /\ results[1].resonance_results =
                  [n \in DOMAIN ReturnedSeq |-> ReturnedSeq[n].ret[1]]
C8_Witness ==
    /\ results # None
    /\ Len(fit_calls) = 2
    /\ fit_calls[1].fit_raised
    /\ fit_calls[2].ret # None
    /\ results[1].resonance_results = <<fit_calls[2].ret[1]>>

\* C9: a call of fit_single_resonance whose sub-window holds fewer than 10
\* samples returns None without running the fit and without an exception; a
\* sub-window of 10 or more samples is passed to the fit.
C9_SmallWindowSkipped ==
    \A k \in DOMAIN fit_calls :
        IF RegionSize(fit_calls[k].idx) < 10
        THEN ~fit_calls[k].called_fit /\ fit_calls[k].ret = None
        ELSE fit_calls[k].called_fit
C9_Witness ==
    /\ results # None
    /\ \E k \in DOMAIN fit_calls :
           /\ RegionSize(fit_calls[k].idx) = 9
           /\ ~fit_calls[k].called_fit
    /\ results[1].resonances_found = 2
    /\ results[1].resonances_fitted = 1

\* a value kept in units of 1e6 is at least / at most so many tenths
AtLeastTenths(q, t) ==
    q[2] = 0 \/ q[1] >= t * (q[2] \div 10000000)
                        + Ceil(t * (q[2] % 10000000), 10000000)
AtMostTenths(q, t) ==
    q[2] # 0 /\ q[1] <= t * (q[2] \div 10000000)
                        + (t * (q[2] % 10000000)) \div 10000000

\* a value q kept in units of 1e6 equals a value r kept in units of 1
EqualTimesMillion(q, r) ==
    LET g == GCD(1000000, q[2])
        m == 1000000 \div g
    IN  IF q[2] = 0 \/ r[2] = 0 THEN q = r
        ELSE q[2] \div g = r[2] /\ r[1] % m = 0 /\ r[1] \div m = q[1]

\* C13: for a free spectral range of 1.55 nm and a radius of 10 um,
\* calculate_effective_index returns a group index between 3.4 and 3.6.
C13_GroupIndexOfReferenceRing ==
    (index_ret # None /\ index_fsr = <<3100, 1>> /\ index_radius = 10) =>
        LET n_g == index_ret[1][2]
        IN  AtLeastTenths(n_g, 34) /\ AtMostTenths(n_g, 36)

\* C14: the effective index computed in analyze_all_resonances, which uses
\* a radius of 10 um, equals the one calculate_effective_index returns for
\* the same positive free spectral range and that radius.
C14_BothCopiesGiveSameIndex ==
    (index_ret # None /\ all_n_eff # None /\ index_radius = 10
        /\ index_fsr[1] > 0) =>
        EqualTimesMillion(index_ret[1][1], all_n_eff[1])

\* C15: a fitted resonance has fwhm_nm = 2 * gamma of the fit, Q_factor =
\* resonance_wavelength / fwhm_nm, and an extinction ratio that is the
\* difference in dB between the largest and the smallest power inside the
\* fit window, which is never negative.
C15_WidthQAndExtinctionOfFit ==
    \A k \in Returned :
        LET r == fit_calls[k].ret[1]
            center_wl == wavelengths[fit_calls[k].idx]
            inside == {j \in DOMAIN wavelengths :
                          Abs(wavelengths[j] - center_wl) <= window_default}
            largest == SetMax({powers[j] : j \in inside})
            smallest == SetMin({powers[j] : j \in inside})
        IN  /\ r.fwhm_nm = 2 * r.fit_parameters[3]
            /\ r.Q_factor[2] > 0
            /\ r.Q_factor[1] * r.fwhm_nm
                   = r.Q_factor[2] * r.resonance_wavelength
            /\ r.extinction_ratio_dB = largest - smallest
            /\ r.extinction_ratio_dB >= 0

\* a fit of a deep dip: width 0.1 nm, extinction ratio DeepDip
C15_Witness ==
    \E k \in Returned :
        LET r == fit_calls[k].ret[1]
        IN  /\ r.fwhm_nm = 200
            /\ r.Q_factor[1] > 0
            /\ r.extinction_ratio_dB = DeepDip

C17_InvocationsKeepTheirArtefacts ==
    (~threads /\ \A i \in DOMAIN ipc : ipc[i] = "done") =>
        \A i \in DOMAIN ipc :
            /\ [name |-> plot_file(script, csv_file[i]),
                content |-> {csv_file[i]}] \in fs
            /\ [name |-> results_file(script, csv_file[i]),
                content |-> {csv_file[i]}] \in fs

C19_CandidatesAreStrictLocalMinima ==
    pc = "detected" =>
        LET smoothed == savgol_filter(powers)
            dips == resonance_indices
        IN  /\ \A n \in DOMAIN dips :
                   /\ dips[n] \in 2..(Len(powers) - 1)
                   /\ smoothed[dips[n]] < smoothed[dips[n] - 1]
                   /\ smoothed[dips[n]] < smoothed[dips[n] + 1]
            /\ \A n \in 1..(Len(dips) - 1) : dips[n] < dips[n + 1]

\* C19 amended: every returned index is the middle sample of a run of
\* equal smoothed values (of one sample or more) that both bordering
\* samples strictly exceed, so its smoothed value is not higher than at
\* either neighbour; and the indices are strictly increasing.
C19_CandidatesAreMiddlesOfFlatMinima ==
    pc = "detected" =>
        LET smoothed == savgol_filter(powers)
            dips == resonance_indices
        IN  /\ \A n \in DOMAIN dips :
                   \E l \in 2..dips[n], r \in dips[n]..(Len(powers) - 1) :
                       /\ \A k \in l..r : smoothed[k] = smoothed[dips[n]]
                       /\ smoothed[l - 1] > smoothed[dips[n]]
                       /\ smoothed[r + 1] > smoothed[dips[n]]
                       /\ dips[n] = (l + r) \div 2
            /\ \A n \in 1..(Len(dips) - 1) : dips[n] < dips[n + 1]

\* a returned index whose right neighbour has the same smoothed value, at
\* the bottom of a dip that is more than min_depth below the baseline
C19_Witness ==
    /\ pc = "detected"
    /\ \E n \in DOMAIN resonance_indices :
          LET smoothed == savgol_filter(powers)
              c == resonance_indices[n]
          IN  /\ smoothed[c + 1] = smoothed[c]
              /\ smoothed[c] < smoothed[c - 1]
              /\ smoothed[1] - smoothed[c] >= min_depth_default * SavgolDen

\* C20: the steps of run_complete_workflow start in the order reference
\* measurement, taper measurements, analysis, report, each at most once; a
\* step starts only after every earlier step has returned True; a step that
\* returns False ends the workflow with False before any later step starts;
\* and True is returned only after the report was written.
StepOrder == <<"reference", "taper", "analysis", "report">>

C20_StepsInOrderAndStopAtFirstFailure ==
    /\ Len(stdout) <= Len(StepOrder)
    /\ \A k \in DOMAIN stdout : stdout[k] = StepOrder[k]
    /\ \A k \in DOMAIN stdout : \A j \in 1..(k - 1) :
           j \in DOMAIN step_results /\ step_results[j] = TRUE
    /\ \A k \in DOMAIN step_results :
           step_results[k] = FALSE =>
               /\ wf_ret = Some(FALSE)
               /\ wf_pc = "done"
               /\ Len(stdout) = k
    /\ wf_ret = Some(TRUE) =>
           /\ stdout = StepOrder
           /\ step_results = <<TRUE, TRUE, TRUE>>
           /\ ReportFile \in out_files
    /\ wf_ret # None <=> wf_pc = "done"

\* a workflow that returned True although one taper measurement failed
C20_Witness ==
    /\ wf_ret = Some(TRUE)
    /\ stdout = StepOrder
    /\ success_count = 2

\* C21: a call of run_taper_measurements that finds no reference.csv in
\* the output directory launches no subprocess and returns False, whatever
\* was called on the object before.
C21_NoTaperMeasurementWithoutReference ==
    [][(/\ wf_pc = "free"
        /\ stdout' = Append(stdout, "taper")
        /\ "reference.csv" \notin out_files)
       => (/\ launched' = launched
           /\ step_results' = Append(step_results, FALSE)
           /\ wf_pc' = "free")]_vars

\* run_taper_measurements has returned False, with nothing launched, after
\* a reference measurement that failed
C21_Witness ==
    /\ wf_pc = "free"
    /\ Len(stdout) = 2
    /\ stdout[1] = "reference"
    /\ stdout[2] = "taper"
    /\ "reference.csv" \notin out_files
    /\ step_results = <<FALSE, FALSE>>
    /\ Len(launched) = 1

\* C22: once run_analysis has been started by run_complete_workflow, the
\* measurement of the 5 um taper has been launched in the taper step and
\* has ended with return code 0.
C22_AnalysisFollowsMeasuredFiveMicronTaper ==
    (\E i \in 1..Len(stdout) : stdout[i] = "analysis")
        => \E i \in 1..Len(launched) :
             launched[i] = Launch("measure_taper.py", 5, 0)

\* C23: a run of run_complete_analysis that has ended has written the
\* summary report and printed ANALYSIS COMPLETE, whatever files were found
\* and however their analyses ended.
C23_RunEndsWithSummaryReport ==
    run_pc \in {"complete", "raised"}
        => (run_pc = "complete" /\ run_error = None /\ report_files = 1)

\* C24: every entry of results_summary was stored by an analysis that ended
\* with return code 0 and found its results file; and once the analyses are
\* over, every cutback file, every taper file that has a reference and
\* every ring file was analysed exactly once, in the order of the lists,
\* and the PCM correlation was run when PCM files were found, whichever of
\* the analyses before failed or raised.
C24_FailuresStopNothingAndStoreNothing ==
    LET analysed(script_name) ==
            SelectSeq(attempts, LAMBDA a : a.script = script_name)
        files_of(script_name) ==
            [i \in 1..Len(analysed(script_name)) |->
                analysed(script_name)[i].file]
    IN  /\ \A e \in results_summary :
             \E i \in 1..Len(attempts) :
                 /\ attempts[i].file = e.from
                 /\ ~attempts[i].outcome.raised
                 /\ attempts[i].outcome.returncode = 0
                 /\ attempts[i].outcome.result_file # None
                 /\ attempts[i].outcome.result_file[1].value = e.results
        /\ run_pc \in {"report", "complete", "raised"} =>
             /\ files_of("cutback_analysis.py") = data_files[1]["cutback"]
             /\ files_of("taper_loss_analysis.py") =
                    SelectSeq(data_files[1]["taper"],
                              LAMBDA f : ref_candidates(f) # <<>>)
             /\ files_of("ring_q_analysis.py") = data_files[1]["ring"]
             /\ Len(analysed("pcm_correlation.py")) =
                    IF data_files[1]["pcm"] # <<>> THEN 1 ELSE 0

\* the analysis of the first file ended with return code 1, the analysis
\* of the next one, in a later category, stored its results, and the
\* analyses are over
C24_Witness ==
    /\ run_pc = "report"
    /\ Len(attempts) = 2
    /\ attempts[1].outcome.returncode = 1
    /\ ~attempts[1].outcome.raised
    /\ attempts[1].script = "cutback_analysis.py"
    /\ attempts[2].script = "ring_q_analysis.py"
    /\ \E e \in results_summary : e.from = attempts[2].file
    /\ \A e \in results_summary : e.from # attempts[1].file

\* C25: discover_data_files puts every file glob returned into exactly one
\* of the five lists, exactly once, and into the list of the first category,
\* in the order cutback, taper, ring, pcm, that has a keyword occurring in
\* the lower-cased base name of the file, or into other when none has; the
\* lists hold nothing else.
C25_EveryFileInItsFirstMatchingCategory ==
    data_files # None =>
        LET lists == data_files[1]
            keywords == <<cutback_keywords, taper_keywords, ring_keywords,
                          pcm_keywords>>
            places(file_path) ==
                {<<c, j>> \in (DOMAIN lists) \X (1..Len(csv_files)) :
                    j <= Len(lists[c]) /\ lists[c][j] = file_path}
            matching(file_path) ==
                {k \in 1..Len(keywords) :
                    \E keyword \in keywords[k] :
                        contains(lower(basename(file_path)), keyword)}
            expected(file_path) ==
                IF matching(file_path) = {} THEN "other"
                ELSE Categories[SetMin(matching(file_path))]
        IN  /\ DOMAIN lists = {"cutback", "taper", "ring", "pcm", "other"}
            /\ \A i \in 1..Len(csv_files) :
                 /\ Cardinality(places(csv_files[i])) = 1
                 /\ \A place \in places(csv_files[i]) :
                      place[1] = expected(csv_files[i])
            /\ \A c \in DOMAIN lists : \A j \in 1..Len(lists[c]) :
                 \E i \in 1..Len(csv_files) : csv_files[i] = lists[c][j]

\* two files were sorted whose upper-case names hold keywords of two
\* categories each: one went to taper, the other to ring
C25_Witness ==
    /\ run_pc = "returned"
    /\ data_files # None
    /\ Len(data_files[1]["taper"]) = 1
    /\ Len(data_files[1]["ring"]) = 1
    /\ basename(data_files[1]["taper"][1]) = <<"e", "t", "c", "h", "_", "N", "A", "R", "R", "O", "W", ".", "c", "s", "v">>
    /\ basename(data_files[1]["ring"][1]) = <<"S", "p", "e", "c", "t", "r", "u", "m", ".", "c", "s", "v">>

\* C26: in the result of an analysis resonances_fitted is at most
\* resonances_found, which is the number of candidates; resonance_results
\* holds one entry for each candidate whose fit returned a result, and no
\* other, in the order of the candidates, which is the order of their
\* sample indices; resonances_fitted is the number of these entries.
C26_OneResultPerFittedCandidateInOrder ==
    results # None =>
        /\ results[1].resonances_found = Len(resonance_indices)
        /\ results[1].resonances_fitted <= results[1].resonances_found
        /\ results[1].resonances_fitted = Len(results[1].resonance_results)
        /\ Len(fit_calls) = Len(resonance_indices)
        /\ \A k \in DOMAIN fit_calls : fit_calls[k].idx = resonance_indices[k]
        /\ \A k, l \in DOMAIN resonance_indices :
             k < l => resonance_indices[k] < resonance_indices[l]
        /\ results[1].resonance_results =
               [k \in 1..Len(ReturnedSeq) |-> ReturnedSeq[k].ret[1]]

\* a result of several candidates of which the first was not fitted and a
\* later one was, so that the first entry belongs to a later candidate
C26_Witness ==
    /\ results # None
    /\ results[1].resonances_found >= 2
    /\ results[1].resonances_fitted >= 1
    /\ fit_calls[1].ret = None
    /\ fit_calls[2].ret # None
    /\ results[1].resonance_results[1] = fit_calls[2].ret[1]

\* how often three double quotes stand in a line, read from left to right
RECURSIVE TripleQuotes(_, _)
TripleQuotes(line, i) ==
    IF i + 2 > Len(line) THEN 0
    ELSE IF SubSeq(line, i, i + 2) = triple_quote
    THEN 1 + TripleQuotes(line, i + 3)
    ELSE TripleQuotes(line, i + 1)

\* line i of a file stands outside every triple-quoted block: an even
\* number of triple quotes stands before it and none in it
RECURSIVE TripleQuotesBefore(_, _)
TripleQuotesBefore(lines, i) ==
    IF i <= 1 THEN 0
    ELSE TripleQuotesBefore(lines, i - 1) + TripleQuotes(lines[i - 1], 1)
OutsideBlocks(lines, i) ==
    /\ TripleQuotesBefore(lines, i) % 2 = 0
    /\ TripleQuotes(lines[i], 1) = 0

\* C27: an application keeps every line that stands outside every
\* triple-quoted block and holds neither # nor an em dash, and the file it
\* writes holds the kept lines in their original order; code after a
\* docstring that opens and closes on one line is kept.
C27_LinesOutsideBlocksAreKept ==
    \A n \in 1..Len(applications) :
        LET lines == earlier_contents[n]
            kept == applications[n].kept
            written == IF n < Len(applications)
                       THEN earlier_contents[n + 1] ELSE file_content
        IN  /\ \A i \in 1..Len(lines) :
                 (/\ OutsideBlocks(lines, i)
                  /\ ~contains(lines[i], hash_sign)
                  /\ ~contains(lines[i], em_dash))
                    => \E k \in 1..Len(kept) : kept[k] = i
            /\ \A k, l \in 1..Len(kept) : k < l => kept[k] < kept[l]
            /\ written = [k \in 1..Len(kept) |-> lines[kept[k]]]

\* C28: applying remove_comments_and_mdash to the file it has written
\* changes nothing: after every further application the file holds what it
\* held after the first, and no line is counted as removed.
C28_SecondApplicationChangesNothing ==
    \A n \in 2..Len(applications) :
        /\ (IF n < Len(applications)
            THEN earlier_contents[n + 1] ELSE file_content) = earlier_contents[n]
        /\ applications[n].removed_count = 0

\* a file of the first line of a docstring, its last line and a line of
\* code was cleaned twice: the first application removed the two lines of
\* the docstring, the second removed nothing
C28_Witness ==
    /\ Len(applications) = 2
    /\ Len(earlier_contents[1]) = 3
    /\ applications[1].removed_count = 2
    /\ applications[1].kept = <<3>>
    /\ contains(earlier_contents[1][1], triple_quote)
    /\ contains(earlier_contents[1][2], triple_quote)
    /\ file_content = <<earlier_contents[1][3]>>

\* C12: calculate_fsr returns the mean and the standard deviation of the
\* differences between consecutive centre wavelengths taken in ascending
\* order; two resonances D apart give FSR = D and deviation 0; the FSR is
\* never negative.
C12_FsrIsMeanSpacingOfSortedCentres ==
    (fsr_ret # None /\ Len(fsr_arg) >= 2) =>
        LET wl == fsr_arg
            n == Len(wl)
            values == {wl[k] : k \in 1..n}
            Count(s, v) == Cardinality({k \in 1..n : s[k] = v})
            ascending == CHOOSE s \in [1..n -> values] :
                            /\ \A v \in values : Count(s, v) = Count(wl, v)
                            /\ \A k \in 1..(n - 1) : s[k] <= s[k + 1]
            spacings == [k \in 1..(n - 1) |-> ascending[k + 1] - ascending[k]]
            ret == fsr_ret[1]
        IN  /\ ret = <<mean(spacings), std(spacings)>>
            /\ ret[1][1] >= 0 /\ ret[1][2] > 0
            /\ n = 2 => /\ ret[1] = <<Abs(wl[1] - wl[2]), 1>>
                        /\ ret[2] = <<0, 1>>

\* two resonances given in descending order, three units apart
C12_Witness ==
    /\ fsr_ret # None
    /\ Len(fsr_arg) = 2
    /\ fsr_arg[1] = fsr_arg[2] + 3
    /\ fsr_ret[1] = <<(<<3, 1>>), (<<0, 1>>)>>

\* C11: the analysis of a file that has both columns and at least as many
\* samples as the smoothing window never ends with an exception.
C11_WellFormedSpectrumNeverRaises ==
    (WellFormed /\ Len(powers) >= window_length) => pc # "raised"

\* C10: an input file without the column wavelength_nm or power_dBm leads to
\* an empty candidate list, not to a raised error.
C10_MissingColumnsGiveNoCandidates ==
    (~WellFormed /\ pc # "start")
        => (pc # "raised" /\ error = "none" /\ resonance_indices = <<>>)

====
